---------------------------- MODULE Spec2Model ----------------------------
(***************************************************************************)
(* A model of the PCjs x86 opcode helpers (src/modules/pcjs/lib/x86.js):   *)
(* the fault dispatcher (fnFault, fnFaultMessage), interrupt entry and     *)
(* return (fnINT, fnIRET), the far transfers (fnCALLF, fnRETF) and the     *)
(* divide helpers (fnDIVb, fnDIVw, fnIDIVb, fnIDIVw).                      *)
(*                                                                         *)
(* The helpers run with `this` bound to the CPU.  Here the CPU is a record *)
(* s; every helper is an operator from CPU records to CPU records, and an  *)
(* action applies one whole instruction to the variables.  The CPU methods *)
(* the helpers call (pushWord, popWord, setCSIP, segCS.loadIDT, getPS,     *)
(* setPS, resetRegs, ...) live in files outside src/; they are modelled    *)
(* from the specification document and marked so in MODEL_MAP.json.        *)
(***************************************************************************)
EXTENDS Integers, Sequences, FiniteSets, TLC

(***************************************************************************)
(* JavaScript 32-bit integer arithmetic.  The operands are integers in the *)
(* range of a signed 32-bit integer; the operators work on the two 16-bit  *)
(* halves of the two's complement representation, so that no intermediate  *)
(* value leaves that range.                                                *)
(***************************************************************************)
Pow2(n) == 2 ^ n

Lo16(x) == x % 65536
Hi16(x) == (x \div 65536) % 65536

\* the signed 32-bit integer with the halves hi and lo
Int32(hi, lo) == (IF hi >= 32768 THEN hi - 65536 ELSE hi) * 65536 + lo

RECURSIVE BitAndNat(_, _)
BitAndNat(a, b) ==
    IF a = 0 \/ b = 0 THEN 0
    ELSE (IF a % 2 = 1 /\ b % 2 = 1 THEN 1 ELSE 0) + 2 * BitAndNat(a \div 2, b \div 2)

\* a & b
BitAnd(a, b) ==
    IF b = 65535 THEN Lo16(a)
    ELSE Int32(BitAndNat(Hi16(a), Hi16(b)), BitAndNat(Lo16(a), Lo16(b)))

\* a | b
BitOr(a, b) ==
    Int32(Hi16(a) + Hi16(b) - BitAndNat(Hi16(a), Hi16(b)),
          Lo16(a) + Lo16(b) - BitAndNat(Lo16(a), Lo16(b)))

\* a & ~b
BitClear(a, b) ==
    Int32(Hi16(a) - BitAndNat(Hi16(a), Hi16(b)), Lo16(a) - BitAndNat(Lo16(a), Lo16(b)))

\* x << n, for 0 <= n <= 31
SHL(x, n) ==
    IF n >= 16
    THEN Int32((Lo16(x) * Pow2(n - 16)) % 65536, 0)
    ELSE Int32((Hi16(x) * Pow2(n) + (Lo16(x) * Pow2(n)) \div 65536) % 65536,
               (Lo16(x) * Pow2(n)) % 65536)

\* x >> n (sign-propagating), for 0 <= n <= 30
SAR(x, n) == x \div Pow2(n)

(***************************************************************************)
(* JavaScript numbers that are not 32-bit integers.  The quotient n / d of *)
(* two integers is kept exact, as the pair [n, d] with d # 0.  A number up *)
(* to 2^32 - 1 is kept as its two 16-bit halves [hi, lo].                  *)
(***************************************************************************)
Quot(n, d) == [n |-> n, d |-> d]

\* Math.floor(q)
QuotFloor(q) ==
    IF q.d > 0 THEN q.n \div q.d
    ELSE -((q.n \div (-q.d)) + (IF q.n % (-q.d) # 0 THEN 1 ELSE 0))

\* the integer part of q, rounded toward zero (what ToInt32 keeps of a fraction)
QuotTrunc(q) ==
    LET n == IF q.d > 0 THEN q.n ELSE -q.n
        d == IF q.d > 0 THEN q.d ELSE -q.d
    IN  IF n >= 0 THEN n \div d ELSE -((-n) \div d)

\* q > k, for an integer k
QuotGT(q, k) == IF q.d > 0 THEN q.n > k * q.d ELSE q.n < k * q.d

\* n % d in JavaScript: the remainder has the sign of the dividend
JSRem(n, d) ==
    LET ad == IF d > 0 THEN d ELSE -d
    IN  IF n >= 0 THEN n % ad ELSE -((-n) % ad)

\* lo + hi * 0x10000 as a number
Wide(hi, lo) == [hi |-> hi, lo |-> lo]

\* a * b for 0 <= a, b < 2^16, as a number [hi, lo]
WideMul(a, b) ==
    LET p1 == a * (b % 256)
        p2 == a * (b \div 256)
        lo == p1 + (p2 % 256) * 256
    IN  Wide((p2 \div 256) + (lo \div 65536), lo % 65536)

\* Math.floor(w / d) and w % d for a number w = [hi, lo] and 0 < d < 2^16, by
\* long division; the quotient is again a number [hi, lo]
WideDivMod(w, d) ==
    LET r1 == w.hi % d
        t1 == r1 * 256 + (w.lo \div 256)
        t2 == (t1 % d) * 256 + (w.lo % 256)
    IN  [q |-> Wide(w.hi \div d, (t1 \div d) * 256 + (t2 \div d)), r |-> t2 % d]

(***************************************************************************)
(* Constants of X86 (x86.js)                                                *)
(***************************************************************************)
MODEL_8086  == 8086
MODEL_8088  == 8088
MODEL_80186 == 80186
MODEL_80188 == 80188
MODEL_80286 == 80286
MODEL_80386 == 80386

ADDR_INVALID == -1

DIV_ERR  == 0
UD_FAULT == 6
DF_FAULT == 8
NP_FAULT == 11
SS_FAULT == 12
GP_FAULT == 13

PS_CF    == 1
PS_BIT1  == 2
PS_PF    == 4
PS_AF    == 16
PS_ZF    == 64
PS_SF    == 128
PS_TF    == 256
PS_IF    == 512
PS_DF    == 1024
PS_OF    == 2048
PS_IOPL  == 12288
PS_NT    == 16384
PS_BIT15 == 32768

CR0_MSW_PE == 1

SEL_RPL  == 3
SEL_LDT  == 4
SEL_MASK == 65528

ACC_TYPE_SEG             == 4096
ACC_TYPE_CODE            == 2048
ACC_TYPE_WRITABLE        == 512
ACC_TYPE_CONFORMING      == 1024
ACC_TYPE_GATE286_INT     == 1536
ACC_TYPE_GATE286_TRAP    == 1792
ACC_TYPE_DATA_WRITABLE   == 4608
ACC_TYPE_CODE_READABLE   == 6656
ACC_TYPE_CODE_CONFORMING == 7168
ACC_TYPE_MASK            == 7936
ACC_TYPE_TSS286          == 256
ACC_TYPE_LDT             == 512
ACC_TYPE_TSS286_BUSY     == 768
ACC_TYPE_TSS386          == 2304
ACC_TYPE_TSS386_BUSY     == 2816
ACC_TSS_BUSY             == 512
ACC_OFFSET               == 4
ACC_DPL_MASK             == 24576
ACC_DPL_SHIFT            == 13
ACC_PRESENT              == 32768

ERRCODE_EXT     == 1
ERRCODE_IDT     == 2
ERRCODE_SELMASK == 65532

OPFLAG_NOREAD  == 1
OPFLAG_NOWRITE == 2
OPFLAG_PUSHSP  == 512

OPCODE_INT3 == 204

PS_DIRECT_8086 == BitOr(PS_TF, BitOr(PS_IF, PS_DF))
PS_SET_8086    == BitOr(PS_BIT1, BitOr(PS_IOPL, BitOr(PS_NT, PS_BIT15)))
PS_CACHED      == BitOr(PS_CF, BitOr(PS_PF, BitOr(PS_AF, BitOr(PS_ZF, BitOr(PS_SF, PS_OF)))))

Models == {MODEL_8086, MODEL_8088, MODEL_80186, MODEL_80188, MODEL_80286, MODEL_80386}


(***************************************************************************)
(* Bounds of the model                                                     *)
(***************************************************************************)
\* an instruction is issued only while the instruction pointer is at most MaxIP
MaxIP == 20
\* ... and while at most MaxStackWords words are on the stack
MaxStackWords == 5
\* a run issues at most MaxSteps instructions
MaxSteps == 2

(***************************************************************************)
(* The machine around the CPU: descriptor tables, vectors, the TSS and the *)
(* stack area.  The helpers only read the tables, so they are fixed here.  *)
(***************************************************************************)
\* JavaScript null (an absent nError)
Null == -1

Acc(type, dpl, present) == type + dpl * Pow2(ACC_DPL_SHIFT) + (IF present THEN ACC_PRESENT ELSE 0)

\* the GDT, by descriptor index; a selector is index * 8 + RPL
GDT ==
    << [acc |-> 0,                                            base |-> 0],     \* 0x00 null
       [acc |-> Acc(ACC_TYPE_CODE_READABLE, 0, TRUE),         base |-> 4096],  \* 0x08 code, DPL 0
       [acc |-> Acc(ACC_TYPE_DATA_WRITABLE, 0, TRUE),         base |-> 0],     \* 0x10 data, DPL 0
       [acc |-> Acc(ACC_TYPE_CODE_READABLE, 3, TRUE),         base |-> 8192],  \* 0x18 code, DPL 3
       [acc |-> Acc(ACC_TYPE_DATA_WRITABLE, 3, TRUE),         base |-> 256],   \* 0x20 data, DPL 3
       [acc |-> Acc(ACC_TYPE_CODE_CONFORMING + 512, 0, TRUE), base |-> 12288], \* 0x28 conforming code, DPL 0
       [acc |-> Acc(ACC_TYPE_CODE_READABLE, 0, FALSE),        base |-> 4096] >> \* 0x30 code, not present

\* the last byte of the GDT: selectors 0x38 and up lie outside the table
GDTLimit == 8 * Len(GDT) - 1

\* the protected-mode IDT: the gate of vector n
IDTGate(n) ==
    CASE n = UD_FAULT -> [acc |-> Acc(ACC_TYPE_GATE286_INT, 3, FALSE), sel |-> 8,  off |-> 8]
      [] n = GP_FAULT -> [acc |-> Acc(ACC_TYPE_GATE286_INT, 0, TRUE),  sel |-> 8,  off |-> 8]
      [] n = 33       -> [acc |-> Acc(ACC_TYPE_GATE286_TRAP, 3, TRUE), sel |-> 8,  off |-> 10]
      [] OTHER        -> [acc |-> Acc(ACC_TYPE_GATE286_INT, 3, TRUE),  sel |-> 40, off |-> 8]

\* the IDT limits a guest may have set with LIDT: all vectors up to 0x21, the
\* vectors up to the double fault only, vector 0 only
IDTLimits == {8 * 33 + 7, 8 * DF_FAULT + 7, 7}

\* the real-mode vector table: (offset, segment) of vector n
IVT(n) == [off |-> 8, sel |-> 256]

\* the current TSS: its ring-0 stack
TSS == [ss0 |-> 16, sp0 |-> 64]

\* linear addresses that hold an INT3 opcode (0xCC): offset 18 of each code segment
Int3LIPs == {4096 + 18, 8192 + 18, 12288 + 18, 16 * 256 + 18}

\* the top of the stack area, and the lowest stack pointer the model issues an
\* instruction at
TopSP == TSS.sp0
MinSP == TopSP - 2 * MaxStackWords
\* the stack areas (one per stack segment base): the even addresses an
\* instruction issued with SP in MinSP .. TopSP reaches
StackAddrs ==
    {b + a : b \in {GDT[3].base, GDT[5].base}, a \in {x \in (MinSP - 16) .. (TopSP + 16) : x % 2 = 0}}

(***************************************************************************)
(* The CPU.  A CPU record s has the fields of X86CPU that the helpers use: *)
(*   model, regCR0, regPS, regSP, regLIP, opLIP, opFlags, nFault,          *)
(*   regEAX, regEDX, regMD16, regMD32,                                     *)
(*   segCS = [sel, base, acc, dpl, cpl], segSS/segDS/segES/segFS/segGS =   *)
(*   [sel, base, acc, dpl], addrIDTLimit, mem (the stack area),            *)
(*   fComplete, fRunning (aFlags), messages (the message categories the    *)
(*   Debugger has enabled),                                                *)
(* and two fields that only record what an instruction did:                *)
(*   nPush  the number of pushWord calls of the current instruction,       *)
(*   trace  the helper calls of the current instruction, in order.         *)
(***************************************************************************)
Log(s, e) == [s EXCEPT !.trace = Append(@, e)]

getIP(s) == s.regLIP - s.segCS.base
setIP(s, off) == [s EXCEPT !.regLIP = s.segCS.base + BitAnd(off, 65535)]
getCS(s) == s.segCS.sel
getSP(s) == s.regSP
setSP(s, sp) == [s EXCEPT !.regSP = BitAnd(sp, 65535)]

\* the PS bits stored directly, and the bits always set, by model
PS_DIRECT_80286 == BitOr(PS_DIRECT_8086, BitOr(PS_IOPL, PS_NT))
PS_DIRECT(model) == IF model >= MODEL_80286 THEN PS_DIRECT_80286 ELSE PS_DIRECT_8086
PS_SET(model) == IF model >= MODEL_80286 THEN PS_BIT1 ELSE PS_SET_8086
PS_STORED(model) ==
    IF model >= MODEL_80286 THEN PS_CACHED + PS_DIRECT_80286 ELSE PS_CACHED + PS_DIRECT_8086

getPS(s) == BitOr(BitAnd(s.regPS, PS_STORED(s.model)), PS_SET(s.model))
setPS(s, regPS, cpl) ==
    [s EXCEPT !.regPS = BitOr(BitAnd(regPS, PS_STORED(s.model)), PS_SET(s.model))]

pushWord(s, w) ==
    LET sp == BitAnd(s.regSP - 2, 65535)
    IN  [s EXCEPT !.regSP = sp,
                  !.mem[s.segSS.base + sp] = BitAnd(w, 65535),
                  !.nPush = @ + 1]

\* popWord returns a value and moves SP: the value, and the CPU afterwards
popValue(s) == s.mem[s.segSS.base + s.regSP]
popWord(s) == [s EXCEPT !.regSP = BitAnd(s.regSP + 2, 65535)]

NullSeg == [sel |-> 0, base |-> 0, acc |-> 0, dpl |-> 0]

\* the descriptor a selector names, its privilege level, and its kind
SelIndex(sel) == BitAnd(sel, SEL_MASK) \div 8
SelInGDT(sel) == BitAnd(sel, SEL_LDT) = 0 /\ BitAnd(sel, SEL_MASK) + 7 <= GDTLimit
DescOf(sel) == GDT[SelIndex(sel) + 1]
DescDPL(acc) == BitAnd(acc, ACC_DPL_MASK) \div Pow2(ACC_DPL_SHIFT)
IsPresent(acc) == BitAnd(acc, ACC_PRESENT) # 0
IsCode(acc) == BitAnd(acc, ACC_TYPE_SEG + ACC_TYPE_CODE) = ACC_TYPE_SEG + ACC_TYPE_CODE
IsConforming(acc) == BitAnd(acc, ACC_TYPE_CODE_CONFORMING) = ACC_TYPE_CODE_CONFORMING
IsWritableData(acc) ==
    BitAnd(acc, ACC_TYPE_SEG + ACC_TYPE_CODE + ACC_TYPE_WRITABLE) = ACC_TYPE_SEG + ACC_TYPE_WRITABLE

\* a data or stack segment register loaded from the GDT
LoadedSeg(sel) ==
    IF BitAnd(sel, SEL_MASK) = 0 THEN NullSeg
    ELSE [sel |-> sel, base |-> DescOf(sel).base, acc |-> DescOf(sel).acc,
          dpl |-> DescDPL(DescOf(sel).acc)]

\* the code segment register loaded from the GDT
CodeSeg(sel) ==
    [sel |-> sel, base |-> DescOf(sel).base, acc |-> DescOf(sel).acc,
     dpl |-> DescDPL(DescOf(sel).acc), cpl |-> BitAnd(sel, SEL_RPL)]

\* X86Seg.load(0) on a data segment register
segLoadNull(s, r) == [s EXCEPT ![r] = NullSeg]

ProtMode(s) == BitAnd(s.regCR0, CR0_MSW_PE) # 0

\* resetRegs(): the architectural reset state
resetRegs(s) ==
    LET cs == IF s.model >= MODEL_80286 THEN 61440 ELSE 65535
        ip == IF s.model >= MODEL_80286 THEN 65520 ELSE 0
    IN  Log([s EXCEPT !.regCR0 = 0, !.regPS = PS_SET(s.model),
                      !.segCS = [sel |-> cs, base |-> cs * 16, acc |-> 0, dpl |-> 0, cpl |-> 0],
                      !.segSS = NullSeg, !.segDS = NullSeg, !.segES = NullSeg,
                      !.segFS = NullSeg, !.segGS = NullSeg,
                      !.regLIP = cs * 16 + ip, !.opLIP = cs * 16 + ip, !.opFlags = 0,
                      !.regEAX = 0, !.regEDX = 0, !.regMD16 = 0, !.regMD32 = 0,
                      !.regSP = 0, !.nFault = -1],
            [fn |-> "resetRegs"])


(***************************************************************************)
(* Faults and interrupts                                                   *)
(***************************************************************************)
messageEnabled(s, bits) == bits \subseteq s.messages

\* fnFaultMessage(nFault, nError, fHalt): the CPU afterwards, and the value
\* returned (TRUE blocks the dispatch of the fault)
fnFaultMessage(s, nFault, nError, fHalt) ==
    LET bOpcodeInt3 == s.regLIP \in Int3LIPs
        bitsMessage == IF bOpcodeInt3 THEN {"FAULT", "CPU"} ELSE {"FAULT"}
        fHalt1 == IF bOpcodeInt3 THEN FALSE ELSE fHalt
        fHalt2 == IF s.regLIP >= 983040 /\ s.regLIP <= 1048575 THEN FALSE ELSE fHalt1
        fHalt3 == IF messageEnabled(s, bitsMessage \cup {"HALT"}) THEN TRUE ELSE fHalt2
        fRunning == s.fRunning
        \* the CPU afterwards when the call stopped it or not, the call recorded
        done(stopped, ret) ==
            [s |-> [s EXCEPT !.fRunning = IF stopped THEN FALSE ELSE @,
                             !.trace = Append(@, [fn |-> "fnFaultMessage", nFault |-> nFault,
                                                  nError |-> nError, ret |-> ret,
                                                  lip |-> s.regLIP])],
             ret |-> ret]
    IN  IF messageEnabled(s, bitsMessage) \/ fHalt3
        THEN IF messageEnabled(s, bitsMessage)            \* printMessage() printed it
             THEN IF fHalt3
                  THEN done(TRUE, fRunning)
                  ELSE done(FALSE, fHalt3)
             ELSE done(TRUE, fHalt3)
        ELSE done(FALSE, fHalt3)

RECURSIVE fnFault(_, _, _, _), fnINT(_, _, _), loadIDT(_, _)

\* X86Seg.loadIDT(nIDT): the CPU afterwards, and the linear address of the
\* handler (ADDR_INVALID when the load failed)
loadIDT(s, nIDT) ==
    IF ~ProtMode(s)
    THEN LET e == IVT(nIDT)
         IN  [s |-> [s EXCEPT !.segCS = [sel |-> e.sel, base |-> e.sel * 16, acc |-> 0,
                                         dpl |-> 0, cpl |-> 0],
                              !.regPS = BitClear(@, PS_TF + PS_IF)],
              addr |-> e.sel * 16 + e.off]
    ELSE LET gate == IDTGate(nIDT)
             err  == nIDT * 8 + ERRCODE_IDT + ERRCODE_EXT
             sel  == gate.sel
             desc == DescOf(sel)
             dpl  == DescDPL(desc.acc)
             cpl  == s.segCS.cpl
             cs(c) == [sel |-> sel, base |-> desc.base, acc |-> desc.acc, dpl |-> dpl, cpl |-> c]
             ps   == IF BitAnd(gate.acc, ACC_TYPE_MASK) = ACC_TYPE_GATE286_INT
                     THEN BitClear(s.regPS, PS_IF) ELSE s.regPS
             \* the fault that the load raises, if any
             flt  == IF nIDT * 8 + 7 > s.addrIDTLimit
                     THEN [v |-> GP_FAULT, e |-> err]
                     ELSE IF ~IsPresent(gate.acc)
                     THEN [v |-> NP_FAULT, e |-> err]
                     ELSE IF ~SelInGDT(sel) \/ ~IsCode(desc.acc) \/ dpl > cpl
                     THEN [v |-> GP_FAULT, e |-> BitAnd(sel, ERRCODE_SELMASK)]
                     ELSE IF ~IsPresent(desc.acc)
                     THEN [v |-> NP_FAULT, e |-> BitAnd(sel, ERRCODE_SELMASK)]
                     ELSE [v |-> -1, e |-> 0]
         IN  IF flt.v >= 0
             THEN [s |-> fnFault(s, flt.v, flt.e, TRUE), addr |-> ADDR_INVALID]
             ELSE IF IsConforming(desc.acc) \/ dpl = cpl
             THEN [s |-> [s EXCEPT !.segCS = cs(cpl), !.regPS = ps], addr |-> desc.base + gate.off]
             ELSE \* to an inner ring: switch to the stack the TSS names, push the old SS:SP
                  [s |-> pushWord(pushWord([s EXCEPT !.segSS = LoadedSeg(TSS.ss0),
                                                     !.regSP = TSS.sp0,
                                                     !.segCS = cs(dpl), !.regPS = ps],
                                           s.segSS.sel),
                                  s.regSP),
                   addr |-> desc.base + gate.off]

\* fnINT, were it to leave nFault alone
fnINTKeepsFault(s, nIDT, nError) ==
    LET regPS == getPS(s)
        regCS == getCS(s)
        regEIP == getIP(s)
        \* what follows addr = segCS.loadIDT(nIDT), which gave r
        loaded(r) ==
            IF r.addr # ADDR_INVALID
            THEN LET s4 == pushWord(pushWord(pushWord([r.s EXCEPT !.regLIP = r.addr], regPS),
                                             regCS), regEIP)
                     s5 == IF nError # Null THEN pushWord(s4, nError) ELSE s4
                 IN  Log(s5, [fn |-> "dispatched", nIDT |-> nIDT])
            ELSE r.s
    IN  loaded(loadIDT(Log(s, [fn |-> "fnINT", nIDT |-> nIDT, nError |-> nError,
                               nFault |-> s.nFault, lip |-> s.regLIP, nPush |-> s.nPush,
                               opFlags |-> s.opFlags]),
                       nIDT))

\* fnINT(nIDT, nError, nCycles)
fnINT(s, nIDT, nError) ==
    LET regPS == getPS(s)
        regCS == getCS(s)
        regEIP == getIP(s)
        \* what follows addr = segCS.loadIDT(nIDT), which gave r
        loaded(r) ==
            IF r.addr # ADDR_INVALID
            THEN LET s4 == pushWord(pushWord(pushWord([r.s EXCEPT !.regLIP = r.addr], regPS),
                                             regCS), regEIP)
                     s5 == IF nError # Null THEN pushWord(s4, nError) ELSE s4
                 IN  Log([s5 EXCEPT !.nFault = -1], [fn |-> "dispatched", nIDT |-> nIDT])
            ELSE r.s
    IN  loaded(loadIDT(Log(s, [fn |-> "fnINT", nIDT |-> nIDT, nError |-> nError,
                               nFault |-> s.nFault, lip |-> s.regLIP, nPush |-> s.nPush,
                               opFlags |-> s.opFlags]),
                       nIDT))

\* fnFault, were a double fault to keep the error code of the fault that caused it
fnFaultKeepsError(s, nFault, nError, fHalt) ==
    LET single == s.model >= MODEL_80186 /\ s.nFault < 0
        double == s.model >= MODEL_80186 /\ s.nFault >= 0 /\ s.nFault # DF_FAULT
        triple == s.model >= MODEL_80186 /\ s.nFault >= 0 /\ s.nFault = DF_FAULT
        nError1 == nError
        nFault1 == IF double THEN DF_FAULT ELSE nFault
        \* what follows fnFaultMessage(nFault, nError, fHalt), which gave m
        dispatch(m) ==
            LET fDispatch == (single \/ double) /\ ~m.ret
                s2 == IF fDispatch
                      THEN fnINT([m.s EXCEPT !.nFault = nFault1], nFault1, nError1)
                      ELSE m.s
            IN  [s2 EXCEPT !.opFlags = BitClear(@, OPFLAG_NOREAD + OPFLAG_NOWRITE)]
        body(s0) ==
            IF ~s0.fComplete
            THEN setIP(s0, s0.opLIP - s0.segCS.base)
            ELSE IF triple
            THEN resetRegs(fnFaultMessage(s0, -1, 0, fHalt).s)
            ELSE dispatch(fnFaultMessage(IF single THEN setIP(s0, s0.opLIP - s0.segCS.base)
                                         ELSE s0,
                                         nFault1, nError1, fHalt))
    IN  body(Log(s, [fn |-> "fnFault", nFault |-> nFault, nError |-> nError,
                     inFlight |-> s.nFault, sp |-> s.regSP, ps |-> s.regPS,
                     nPush |-> s.nPush]))


\* fnFault, were a fault during a double fault to be reported and no more
fnFaultNoReset(s, nFault, nError, fHalt) ==
    LET single == s.model >= MODEL_80186 /\ s.nFault < 0
        double == s.model >= MODEL_80186 /\ s.nFault >= 0 /\ s.nFault # DF_FAULT
        triple == s.model >= MODEL_80186 /\ s.nFault >= 0 /\ s.nFault = DF_FAULT
        nError1 == IF double THEN 0 ELSE nError
        nFault1 == IF double THEN DF_FAULT ELSE nFault
        \* what follows fnFaultMessage(nFault, nError, fHalt), which gave m
        dispatch(m) ==
            LET fDispatch == (single \/ double) /\ ~m.ret
                s2 == IF fDispatch
                      THEN fnINT([m.s EXCEPT !.nFault = nFault1], nFault1, nError1)
                      ELSE m.s
            IN  [s2 EXCEPT !.opFlags = BitClear(@, OPFLAG_NOREAD + OPFLAG_NOWRITE)]
        body(s0) ==
            IF ~s0.fComplete
            THEN setIP(s0, s0.opLIP - s0.segCS.base)
            ELSE IF triple
            THEN fnFaultMessage(s0, -1, 0, fHalt).s
            ELSE dispatch(fnFaultMessage(IF single THEN setIP(s0, s0.opLIP - s0.segCS.base)
                                         ELSE s0,
                                         nFault1, nError1, fHalt))
    IN  body(Log(s, [fn |-> "fnFault", nFault |-> nFault, nError |-> nError,
                     inFlight |-> s.nFault, sp |-> s.regSP, ps |-> s.regPS,
                     nPush |-> s.nPush]))


\* fnFault, were a single fault not to rewind IP
fnFaultNoRewind(s, nFault, nError, fHalt) ==
    LET single == s.model >= MODEL_80186 /\ s.nFault < 0
        double == s.model >= MODEL_80186 /\ s.nFault >= 0 /\ s.nFault # DF_FAULT
        triple == s.model >= MODEL_80186 /\ s.nFault >= 0 /\ s.nFault = DF_FAULT
        nError1 == IF double THEN 0 ELSE nError
        nFault1 == IF double THEN DF_FAULT ELSE nFault
        \* what follows fnFaultMessage(nFault, nError, fHalt), which gave m
        dispatch(m) ==
            LET fDispatch == (single \/ double) /\ ~m.ret
                s2 == IF fDispatch
                      THEN fnINT([m.s EXCEPT !.nFault = nFault1], nFault1, nError1)
                      ELSE m.s
            IN  [s2 EXCEPT !.opFlags = BitClear(@, OPFLAG_NOREAD + OPFLAG_NOWRITE)]
        body(s0) ==
            IF ~s0.fComplete
            THEN setIP(s0, s0.opLIP - s0.segCS.base)
            ELSE IF triple
            THEN resetRegs(fnFaultMessage(s0, -1, 0, fHalt).s)
            ELSE dispatch(fnFaultMessage(s0,
                                         nFault1, nError1, fHalt))
    IN  body(Log(s, [fn |-> "fnFault", nFault |-> nFault, nError |-> nError,
                     inFlight |-> s.nFault, sp |-> s.regSP, ps |-> s.regPS,
                     nPush |-> s.nPush]))


\* fnFault(nFault, nError, fHalt)
fnFault(s, nFault, nError, fHalt) ==
    LET single == s.model >= MODEL_80186 /\ s.nFault < 0
        double == s.model >= MODEL_80186 /\ s.nFault >= 0 /\ s.nFault # DF_FAULT
        triple == s.model >= MODEL_80186 /\ s.nFault >= 0 /\ s.nFault = DF_FAULT
        nError1 == IF double THEN 0 ELSE nError
        nFault1 == IF double THEN DF_FAULT ELSE nFault
        \* what follows fnFaultMessage(nFault, nError, fHalt), which gave m
        dispatch(m) ==
            LET fDispatch == (single \/ double) /\ ~m.ret
                s2 == IF fDispatch
                      THEN fnINT([m.s EXCEPT !.nFault = nFault1], nFault1, nError1)
                      ELSE m.s
            IN  [s2 EXCEPT !.opFlags = BitClear(@, OPFLAG_NOREAD + OPFLAG_NOWRITE)]
        body(s0) ==
            IF ~s0.fComplete
            THEN setIP(s0, s0.opLIP - s0.segCS.base)
            ELSE IF triple
            THEN resetRegs(fnFaultMessage(s0, -1, 0, fHalt).s)
            ELSE dispatch(fnFaultMessage(IF single THEN setIP(s0, s0.opLIP - s0.segCS.base)
                                         ELSE s0,
                                         nFault1, nError1, fHalt))
    IN  body(Log(s, [fn |-> "fnFault", nFault |-> nFault, nError |-> nError,
                     inFlight |-> s.nFault, sp |-> s.regSP, ps |-> s.regPS,
                     nPush |-> s.nPush]))


(***************************************************************************)
(* Far transfers                                                           *)
(***************************************************************************)
\* setCSIP(off, sel, fCall): the CPU afterwards, and the value returned:
\* "null" when the CS load failed, "true" when it switched stacks, else "false"
setCSIP(s, off, sel, fCall) ==
    IF ~ProtMode(s)
    THEN [s |-> Log([s EXCEPT !.segCS = [sel |-> sel, base |-> sel * 16, acc |-> 0,
                                         dpl |-> 0, cpl |-> 0],
                              !.regLIP = sel * 16 + BitAnd(off, 65535)],
                     [fn |-> "setCSIP", off |-> off, sel |-> sel, ok |-> TRUE, sp |-> s.regSP, ps |-> s.regPS,
                      nPush |-> s.nPush]),
          ret |-> "false"]
    ELSE LET rpl  == BitAnd(sel, SEL_RPL)
             cpl  == s.segCS.cpl
             null == BitAnd(sel, SEL_MASK) = 0
             desc == DescOf(sel)
             dpl  == DescDPL(desc.acc)
             priv == IF fCall
                     THEN IF IsConforming(desc.acc) THEN dpl <= cpl ELSE dpl = cpl /\ rpl = cpl
                     ELSE /\ rpl >= cpl
                          /\ IF IsConforming(desc.acc) THEN dpl <= rpl ELSE dpl = rpl
             newcpl == IF fCall THEN cpl ELSE rpl
             newsel == BitAnd(sel, SEL_MASK + SEL_LDT) + newcpl
             cs == [sel |-> newsel, base |-> desc.base, acc |-> desc.acc, dpl |-> dpl,
                    cpl |-> newcpl]
             failed == Log(s, [fn |-> "setCSIP", off |-> off, sel |-> sel, ok |-> FALSE, sp |-> s.regSP,
                               ps |-> s.regPS, nPush |-> s.nPush])
             passed == Log(s, [fn |-> "setCSIP", off |-> off, sel |-> sel, ok |-> TRUE, sp |-> s.regSP,
                               ps |-> s.regPS, nPush |-> s.nPush])
             \* a return to an outer ring pops the outer SS:SP
             regSP == popValue(s)
             regSS == popValue(popWord(s))
             ssOK  == /\ BitAnd(regSS, SEL_MASK) # 0 /\ SelInGDT(regSS)
                      /\ IsWritableData(DescOf(regSS).acc)
                      /\ DescDPL(DescOf(regSS).acc) = rpl /\ BitAnd(regSS, SEL_RPL) = rpl
             \* the fault that the load raises, if any
             flt  == IF null
                     THEN [v |-> GP_FAULT, e |-> 0]
                     ELSE IF ~SelInGDT(sel) \/ ~IsCode(desc.acc) \/ ~priv
                     THEN [v |-> GP_FAULT, e |-> BitAnd(sel, ERRCODE_SELMASK)]
                     ELSE IF ~IsPresent(desc.acc)
                     THEN [v |-> NP_FAULT, e |-> BitAnd(sel, ERRCODE_SELMASK)]
                     ELSE IF newcpl # cpl /\ ~ssOK
                     THEN [v |-> SS_FAULT, e |-> BitAnd(regSS, ERRCODE_SELMASK)]
                     ELSE [v |-> -1, e |-> 0]
         IN  IF flt.v >= 0
             THEN [s |-> fnFault(failed, flt.v, flt.e, FALSE), ret |-> "null"]
             ELSE IF newcpl = cpl
             THEN [s |-> [passed EXCEPT !.segCS = cs, !.regLIP = desc.base + BitAnd(off, 65535)],
                   ret |-> "false"]
             ELSE [s |-> [passed EXCEPT !.segCS = cs, !.regLIP = desc.base + BitAnd(off, 65535),
                                        !.segSS = LoadedSeg(regSS), !.regSP = regSP],
                   ret |-> "true"]

\* fnCALLF, were it to push IP before CS
fnCALLFPushesIPFirst(s, off, sel) ==
    LET regCS == getCS(s)
        regEIP == getIP(s)
        \* what follows setCSIP(off, sel, true), which gave r
        loaded(r) == IF r.ret # "null" THEN pushWord(pushWord(r.s, regEIP), regCS) ELSE r.s
    IN  loaded(setCSIP(s, off, sel, TRUE))

\* fnCALLF(off, sel)
fnCALLF(s, off, sel) ==
    LET regCS == getCS(s)
        regEIP == getIP(s)
        \* what follows setCSIP(off, sel, true), which gave r
        loaded(r) == IF r.ret # "null" THEN pushWord(pushWord(r.s, regCS), regEIP) ELSE r.s
    IN  loaded(setCSIP(s, off, sel, TRUE))

\* the test fnRETF makes of one data segment register after a return to an
\* outer ring
fnRETFSeg(s, r) ==
    IF /\ BitAnd(s[r].sel, SEL_MASK) # 0
       /\ s[r].dpl < s.segCS.cpl
       /\ BitAnd(s[r].acc, ACC_TYPE_CODE_CONFORMING) # ACC_TYPE_CODE_CONFORMING
    THEN segLoadNull(s, r)
    ELSE s

\* fnRETF(n)
fnRETF(s, n) ==
    LET regEIP == popValue(s)
        regCS == popValue(popWord(s))
        n1 == SHL(n, SAR(s.dataSize, 2))
        release(t) == IF n1 # 0 THEN setSP(t, getSP(t) + n1) ELSE t
        \* what follows setCSIP(regEIP, regCS, false), which gave r
        loaded(r) ==
            IF r.ret = "true"
            THEN fnRETFSeg(fnRETFSeg(release(r.s), "segDS"), "segES")
            ELSE r.s
    IN  loaded(setCSIP(release(popWord(popWord(s))), regEIP, regCS, FALSE))

\* fnIRET, were it to pop CS before IP
fnIRETPopsCSFirst(s) ==
    IF ProtMode(s) /\ BitAnd(s.regPS, PS_NT) # 0
    THEN \* X86.TSS is not defined (x86.js defines TSS286 and TSS386 only):
         \* reading X86.TSS.PREV_TSS throws a TypeError, and the helper ends there
         Log(s, [fn |-> "TypeError", expr |-> "X86.TSS.PREV_TSS"])
    ELSE LET cpl == s.segCS.cpl
             regCS == popValue(s)
             regEIP == popValue(popWord(s))
             regPS == popValue(popWord(popWord(s)))
             \* what follows setCSIP(regEIP, regCS, false), which gave r
             loaded(r) == IF r.ret # "null" THEN setPS(r.s, regPS, cpl) ELSE r.s
         IN  loaded(setCSIP(popWord(popWord(popWord(s))), regEIP, regCS, FALSE))

\* fnIRET()
fnIRET(s) ==
    IF ProtMode(s) /\ BitAnd(s.regPS, PS_NT) # 0
    THEN \* X86.TSS is not defined (x86.js defines TSS286 and TSS386 only):
         \* reading X86.TSS.PREV_TSS throws a TypeError, and the helper ends there
         Log(s, [fn |-> "TypeError", expr |-> "X86.TSS.PREV_TSS"])
    ELSE LET cpl == s.segCS.cpl
             regEIP == popValue(s)
             regCS == popValue(popWord(s))
             regPS == popValue(popWord(popWord(s)))
             \* what follows setCSIP(regEIP, regCS, false), which gave r
             loaded(r) == IF r.ret # "null" THEN setPS(r.s, regPS, cpl) ELSE r.s
         IN  loaded(setCSIP(popWord(popWord(popWord(s))), regEIP, regCS, FALSE))


(***************************************************************************)
(* Divide helpers.  Each returns the CPU afterwards and the value handed   *)
(* back to the dispatcher for the operand (dst).                           *)
(***************************************************************************)
\* fnDIVOverflow()
\* fnDIVOverflow without the call of setIP
fnDIVOverflowNoRewind(s) ==
    fnINT(Log(s, [fn |-> "fnDIVOverflow"]), DIV_ERR, Null)

fnDIVOverflow(s) ==
    fnINT(setIP(Log(s, [fn |-> "fnDIVOverflow"]), s.opLIP - s.segCS.base), DIV_ERR, Null)

\* fnDIVb(dst, src)
fnDIVb(s, dst) ==
    LET uQuotient == Quot(s.regEAX, dst)
        ax == BitOr(BitAnd(QuotTrunc(uQuotient), 255),
                    SHL(BitAnd(JSRem(s.regEAX, dst), 255), 8))
    IN  IF dst = 0
        THEN [s |-> fnDIVOverflow(s), ret |-> dst]
        ELSE IF QuotGT(uQuotient, 255)
        THEN [s |-> fnDIVOverflow(s), ret |-> dst]
        ELSE [s |-> [s EXCEPT !.regMD16 = ax, !.regEAX = ax,
                              !.opFlags = BitOr(@, OPFLAG_NOWRITE)],
              ret |-> dst]

\* fnDIVw(dst, src)
fnDIVw(s, dst) ==
    LET src == Wide(s.regEDX, s.regEAX)         \* regEAX + regEDX * 0x10000
        qr == WideDivMod(src, dst)
        uQuotient == qr.q                        \* Math.floor(src / dst)
    IN  IF dst = 0
        THEN [s |-> fnDIVOverflow(s), ret |-> dst]
        ELSE IF uQuotient.hi >= 1                \* uQuotient >= 0x10000
        THEN [s |-> fnDIVOverflow(s), ret |-> dst]
        ELSE [s |-> [s EXCEPT !.regMD16 = BitAnd(uQuotient.lo, 65535),
                              !.regEAX = BitAnd(uQuotient.lo, 65535),
                              !.regMD32 = BitAnd(qr.r, 65535),
                              !.regEDX = BitAnd(qr.r, 65535),
                              !.opFlags = BitOr(@, OPFLAG_NOWRITE)],
              ret |-> dst]

\* fnIDIVb(dst, src)
fnIDIVb(s, dst) ==
    LET lDividend == SAR(SHL(s.regEAX, 16), 16)
        lDivisor == SAR(SHL(dst, 24), 24)
        lQuotient == Quot(lDividend, lDivisor)
        \* (lQuotient > ((lQuotient << 24) >> 24)) & 0xffff: > binds tighter than &
        fOverflow == QuotGT(lQuotient, SAR(SHL(QuotTrunc(lQuotient), 24), 24))
        ax == BitOr(BitAnd(QuotTrunc(lQuotient), 255),
                    SHL(BitAnd(JSRem(lDividend, lDivisor), 255), 8))
    IN  IF dst = 0
        THEN [s |-> fnDIVOverflow(s), ret |-> dst]
        ELSE IF fOverflow
        THEN [s |-> fnDIVOverflow(s), ret |-> dst]
        ELSE [s |-> [s EXCEPT !.regMD16 = ax, !.regEAX = ax,
                              !.opFlags = BitOr(@, OPFLAG_NOWRITE)],
              ret |-> dst]

\* fnIDIVw(dst, src)
fnIDIVw(s, dst) ==
    LET lDivisor == SAR(SHL(dst, 16), 16)
        src == BitOr(SHL(s.regEDX, 16), s.regEAX)
        lQuotient == QuotFloor(Quot(src, lDivisor))
    IN  IF dst = 0
        THEN [s |-> fnDIVOverflow(s), ret |-> dst]
        ELSE IF lQuotient # SAR(SHL(BitAnd(lQuotient, 65535), 16), 16)
        THEN [s |-> fnDIVOverflow(s), ret |-> dst]
        ELSE [s |-> [s EXCEPT !.regMD16 = BitAnd(lQuotient, 65535),
                              !.regEAX = BitAnd(lQuotient, 65535),
                              !.regMD32 = BitAnd(JSRem(src, lDivisor), 65535),
                              !.regEDX = BitAnd(JSRem(src, lDivisor), 65535),
                              !.opFlags = BitOr(@, OPFLAG_NOWRITE)],
              ret |-> dst]


(***************************************************************************)
(* The flag engine.  CF, PF, AF, ZF, SF and OF are either stored in regPS  *)
(* or cached: resultType holds the size of the cached result and one bit   *)
(* for every flag that is to be computed from resultDst, resultSrc,        *)
(* resultArith and resultLogic.  f is a record with the fields of the CPU  *)
(* that the arithmetic helpers read and write.                             *)
(***************************************************************************)
RESULT_BYTE == 128
RESULT_WORD == 32768
RESULT_CF == 1
RESULT_PF == 2
RESULT_AF == 4
RESULT_ZF == 8
RESULT_SF == 16
RESULT_OF == 32
RESULT_ALL == 63
RESULT_LOGIC == 26
RESULT_NOTCF == 62

\* a ^ b
BitXor(a, b) ==
    Int32(Hi16(a) + Hi16(b) - 2 * BitAndNat(Hi16(a), Hi16(b)),
          Lo16(a) + Lo16(b) - 2 * BitAndNat(Lo16(a), Lo16(b)))

\* ~a
BitNot(a) == -1 - a

\* the size part of a result type
ResultSize(type) == BitAnd(type, RESULT_BYTE + RESULT_WORD)

\* the number of 1 bits of n >= 0
RECURSIVE BitCount(_)
BitCount(n) == IF n = 0 THEN 0 ELSE (n % 2) + BitCount(n \div 2)

Cached(f, flag) == BitAnd(f.resultType, flag) # 0
Stored(f, bit) == BitAnd(f.regPS, bit) # 0

\* CF: ((resultDst ^ ((resultDst ^ resultSrc) & (resultSrc ^ resultArith))) & resultType)
getCF(f) ==
    IF Cached(f, RESULT_CF)
    THEN BitAnd(BitXor(f.resultDst, BitAnd(BitXor(f.resultDst, f.resultSrc),
                                           BitXor(f.resultSrc, f.resultArith))),
                ResultSize(f.resultType)) # 0
    ELSE Stored(f, PS_CF)

\* PF: (resultLogic & 0xff) has an even number of 1 bits
getPF(f) ==
    IF Cached(f, RESULT_PF)
    THEN BitCount(BitAnd(f.resultLogic, 255)) % 2 = 0
    ELSE Stored(f, PS_PF)

\* AF: ((resultArith ^ (resultDst ^ resultSrc)) & 0x0010)
getAF(f) ==
    IF Cached(f, RESULT_AF)
    THEN BitAnd(BitXor(f.resultArith, BitXor(f.resultDst, f.resultSrc)), 16) # 0
    ELSE Stored(f, PS_AF)

\* ZF: (resultLogic & ((resultType - 1) | resultType)) is zero
getZF(f) ==
    IF Cached(f, RESULT_ZF)
    THEN BitAnd(f.resultLogic, 2 * ResultSize(f.resultType) - 1) = 0
    ELSE Stored(f, PS_ZF)

\* SF: (resultLogic & resultType)
getSF(f) ==
    IF Cached(f, RESULT_SF)
    THEN BitAnd(f.resultLogic, ResultSize(f.resultType)) # 0
    ELSE Stored(f, PS_SF)

\* OF: (((resultDst ^ resultArith) & (resultSrc ^ resultArith)) & resultType)
getOF(f) ==
    IF Cached(f, RESULT_OF)
    THEN BitAnd(BitAnd(BitXor(f.resultDst, f.resultArith), BitXor(f.resultSrc, f.resultArith)),
                ResultSize(f.resultType)) # 0
    ELSE Stored(f, PS_OF)

getCarry(f) == IF getCF(f) THEN 1 ELSE 0

\* the six flags as bits of PS
getFlags(f) ==
    (IF getCF(f) THEN PS_CF ELSE 0) + (IF getPF(f) THEN PS_PF ELSE 0)
    + (IF getAF(f) THEN PS_AF ELSE 0) + (IF getZF(f) THEN PS_ZF ELSE 0)
    + (IF getSF(f) THEN PS_SF ELSE 0) + (IF getOF(f) THEN PS_OF ELSE 0)

\* the flags that are cached and are not among those of the new type are
\* computed and written to regPS, and are cached no more
flushFlags(f, type) ==
    LET gone == BitClear(BitAnd(f.resultType, RESULT_ALL), type)
        bit(flag, ps, v) == IF BitAnd(gone, flag) # 0 /\ v THEN ps ELSE 0
        mask(flag, ps) == IF BitAnd(gone, flag) # 0 THEN ps ELSE 0
        clear == mask(RESULT_CF, PS_CF) + mask(RESULT_PF, PS_PF) + mask(RESULT_AF, PS_AF)
                 + mask(RESULT_ZF, PS_ZF) + mask(RESULT_SF, PS_SF) + mask(RESULT_OF, PS_OF)
        set == bit(RESULT_CF, PS_CF, getCF(f)) + bit(RESULT_PF, PS_PF, getPF(f))
               + bit(RESULT_AF, PS_AF, getAF(f)) + bit(RESULT_ZF, PS_ZF, getZF(f))
               + bit(RESULT_SF, PS_SF, getSF(f)) + bit(RESULT_OF, PS_OF, getOF(f))
    IN  [f EXCEPT !.regPS = BitClear(@, clear) + set,
                  !.resultType = BitClear(@, gone)]

\* setArithResult(dst, src, value, type, fSubtract): with fSubtract the
\* formulas are those of the addition with resultSrc replaced by
\* resultSrc ^ resultArith
setArithResult(f, dst, src, value, type, fSubtract) ==
    [flushFlags(f, type) EXCEPT !.resultDst = dst,
                                !.resultSrc = IF fSubtract THEN BitXor(src, value) ELSE src,
                                !.resultArith = value, !.resultLogic = value,
                                !.resultType = type]

setFlag(f, flag, bit) == [f EXCEPT !.regPS = BitOr(@, bit), !.resultType = BitClear(@, flag)]
clearFlag(f, flag, bit) == [f EXCEPT !.regPS = BitClear(@, bit), !.resultType = BitClear(@, flag)]

setCF(f) == setFlag(f, RESULT_CF, PS_CF)
clearCF(f) == clearFlag(f, RESULT_CF, PS_CF)
setOF(f) == setFlag(f, RESULT_OF, PS_OF)
clearOF(f) == clearFlag(f, RESULT_OF, PS_OF)

\* setLogicResult(value, type [, carry [, overflow]]): the flags of
\* RESULT.LOGIC are cached, CF and OF are stored
setLogicResult(f, value, type, carry, overflow) ==
    LET f1 == [flushFlags(f, RESULT_LOGIC) EXCEPT !.resultLogic = value,
                                                  !.resultType = BitOr(type, RESULT_LOGIC)]
        f2 == IF carry # 0 THEN setCF(f1) ELSE clearCF(f1)
    IN  IF overflow # 0 THEN setOF(f2) ELSE clearOF(f2)

(***************************************************************************)
(* The arithmetic, logic, shift and rotate helpers.  Each gives the record *)
(* f after the call and the value returned.                                *)
(***************************************************************************)
\* (x)|0 for the sums and differences of the helpers
ToInt32(x) == Int32(Hi16(x), Lo16(x))

\* fnADDb with the result type of fnINCb
fnADDbNoCarry(f, dst, src) ==
    LET b == ToInt32(dst + src)
    IN  [s |-> setArithResult(f, dst, src, b, RESULT_BYTE + RESULT_NOTCF, FALSE),
         ret |-> BitAnd(b, 255)]

fnADDb(f, dst, src) ==
    LET b == ToInt32(dst + src)
    IN  [s |-> setArithResult(f, dst, src, b, RESULT_BYTE + RESULT_ALL, FALSE),
         ret |-> BitAnd(b, 255)]

fnADDw(f, dst, src) ==
    LET w == ToInt32(dst + src)
    IN  [s |-> setArithResult(f, dst, src, w, RESULT_WORD + RESULT_ALL, FALSE),
         ret |-> BitAnd(w, 65535)]

\* fnSUBb without the fSubtract parameter
fnSUBbAsAdded(f, dst, src) ==
    LET b == ToInt32(dst - src)
    IN  [s |-> setArithResult(f, dst, src, b, RESULT_BYTE + RESULT_ALL, FALSE),
         ret |-> BitAnd(b, 255)]

fnSUBb(f, dst, src) ==
    LET b == ToInt32(dst - src)
    IN  [s |-> setArithResult(f, dst, src, b, RESULT_BYTE + RESULT_ALL, TRUE),
         ret |-> BitAnd(b, 255)]

fnSUBw(f, dst, src) ==
    LET w == ToInt32(dst - src)
    IN  [s |-> setArithResult(f, dst, src, w, RESULT_WORD + RESULT_ALL, TRUE),
         ret |-> BitAnd(w, 65535)]

fnCMPb(f, dst, src) ==
    LET b == ToInt32(dst - src)
    IN  [s |-> [setArithResult(f, dst, src, b, RESULT_BYTE + RESULT_ALL, TRUE)
                    EXCEPT !.opFlags = BitOr(@, OPFLAG_NOWRITE)],
         ret |-> dst]

fnCMPw(f, dst, src) ==
    LET w == ToInt32(dst - src)
    IN  [s |-> [setArithResult(f, dst, src, w, RESULT_WORD + RESULT_ALL, TRUE)
                    EXCEPT !.opFlags = BitOr(@, OPFLAG_NOWRITE)],
         ret |-> dst]

fnINCb(f, dst) ==
    LET b == ToInt32(dst + 1)
    IN  [s |-> setArithResult(f, dst, 1, b, RESULT_BYTE + RESULT_NOTCF, FALSE),
         ret |-> BitAnd(b, 255)]

fnINCw(f, dst) ==
    LET w == ToInt32(dst + 1)
    IN  [s |-> setArithResult(f, dst, 1, w, RESULT_WORD + RESULT_NOTCF, FALSE),
         ret |-> BitAnd(w, 65535)]

fnINCr(f, w) ==
    LET result == ToInt32(BitAnd(w, f.dataMask) + 1)
    IN  [s |-> setArithResult(f, w, 1, result, RESULT_WORD + RESULT_NOTCF, FALSE),
         ret |-> BitOr(BitAnd(w, BitNot(f.dataMask)), BitAnd(result, f.dataMask))]

fnDECb(f, dst) ==
    LET b == ToInt32(dst - 1)
    IN  [s |-> setArithResult(f, dst, 1, b, RESULT_BYTE + RESULT_NOTCF, TRUE),
         ret |-> BitAnd(b, 255)]

fnDECw(f, dst) ==
    LET w == ToInt32(dst - 1)
    IN  [s |-> setArithResult(f, dst, 1, w, RESULT_WORD + RESULT_NOTCF, TRUE),
         ret |-> BitAnd(w, 65535)]

fnDECr(f, w) ==
    LET result == ToInt32(BitAnd(w, f.dataMask) - 1)
    IN  [s |-> setArithResult(f, w, 1, result, RESULT_WORD + RESULT_NOTCF, TRUE),
         ret |-> BitOr(BitAnd(w, BitNot(f.dataMask)), BitAnd(result, f.dataMask))]

\* fnANDb passing the carry of before to setLogicResult
fnANDbKeepsCarry(f, dst, src) ==
    [s |-> setLogicResult(f, BitAnd(dst, src), RESULT_BYTE, getCarry(f), 0),
     ret |-> BitAnd(dst, src)]

fnANDb(f, dst, src) ==
    [s |-> setLogicResult(f, BitAnd(dst, src), RESULT_BYTE, 0, 0), ret |-> BitAnd(dst, src)]

fnANDw(f, dst, src) ==
    [s |-> setLogicResult(f, BitAnd(dst, src), RESULT_WORD, 0, 0), ret |-> BitAnd(dst, src)]

fnORb(f, dst, src) ==
    [s |-> setLogicResult(f, BitOr(dst, src), RESULT_BYTE, 0, 0), ret |-> BitOr(dst, src)]

fnORw(f, dst, src) ==
    [s |-> setLogicResult(f, BitOr(dst, src), RESULT_WORD, 0, 0), ret |-> BitOr(dst, src)]

fnXORb(f, dst, src) ==
    [s |-> setLogicResult(f, BitXor(dst, src), RESULT_BYTE, 0, 0), ret |-> BitXor(dst, src)]

fnXORw(f, dst, src) ==
    [s |-> setLogicResult(f, BitXor(dst, src), RESULT_WORD, 0, 0), ret |-> BitXor(dst, src)]

fnTESTb(f, dst, src) ==
    [s |-> [setLogicResult(f, BitAnd(dst, src), RESULT_BYTE, 0, 0)
                EXCEPT !.opFlags = BitOr(@, OPFLAG_NOWRITE)],
     ret |-> dst]

fnTESTw(f, dst, src) ==
    [s |-> [setLogicResult(f, BitAnd(dst, src), RESULT_WORD, 0, 0)
                EXCEPT !.opFlags = BitOr(@, OPFLAG_NOWRITE)],
     ret |-> dst]

\* setCF(); setOF() or clearCF(); clearOF()
setCarryOverflow(f, fSet) == IF fSet THEN setOF(setCF(f)) ELSE clearOF(clearCF(f))

fnMULb(f, dst) ==
    LET ax == BitAnd(BitAnd(f.regEAX, 255) * dst, 65535)
    IN  [s |-> [setCarryOverflow([f EXCEPT !.regEAX = ax, !.regMD16 = ax],
                                 BitAnd(ax, 65280) # 0)
                    EXCEPT !.opFlags = BitOr(@, OPFLAG_NOWRITE)],
         ret |-> dst]

fnMULw(f, dst) ==
    LET result == WideMul(f.regEAX, dst)
    IN  [s |-> [setCarryOverflow([f EXCEPT !.regMD16 = result.lo, !.regEAX = result.lo,
                                           !.regMD32 = result.hi, !.regEDX = result.hi],
                                 result.hi # 0)
                    EXCEPT !.opFlags = BitOr(@, OPFLAG_NOWRITE)],
         ret |-> dst]

\* fnIMULb with the carry taken from bit 7 of the product
fnIMULbSignBit(f, dst) ==
    LET result == SAR(SHL(f.regEAX, 24), 24) * SAR(SHL(dst, 24), 24)
    IN  [s |-> [setCarryOverflow([f EXCEPT !.regEAX = BitAnd(result, 65535),
                                           !.regMD16 = BitAnd(result, 65535)],
                                 BitAnd(result, 128) # 0)
                    EXCEPT !.opFlags = BitOr(@, OPFLAG_NOWRITE)],
         ret |-> dst]

fnIMULb(f, dst) ==
    LET result == SAR(SHL(f.regEAX, 24), 24) * SAR(SHL(dst, 24), 24)
    IN  [s |-> [setCarryOverflow([f EXCEPT !.regEAX = BitAnd(result, 65535),
                                           !.regMD16 = BitAnd(result, 65535)],
                                 result > 127 \/ result < -128)
                    EXCEPT !.opFlags = BitOr(@, OPFLAG_NOWRITE)],
         ret |-> dst]

fnIMULw(f, dst) ==
    LET result == SAR(SHL(f.regEAX, 16), 16) * SAR(SHL(dst, 16), 16)
    IN  [s |-> [setCarryOverflow([f EXCEPT !.regEAX = BitAnd(result, 65535),
                                           !.regMD16 = BitAnd(result, 65535),
                                           !.regEDX = BitAnd(SAR(result, 16), 65535),
                                           !.regMD32 = BitAnd(SAR(result, 16), 65535)],
                                 result > 32767 \/ result < -32768)
                    EXCEPT !.opFlags = BitOr(@, OPFLAG_NOWRITE)],
         ret |-> dst]

\* fnSARb without the sign extension of dst
fnSARbLogical(f, dst, src) ==
    LET n == IF src > 8 THEN 9 ELSE src
        temp == SAR(dst, n - 1)
        result == BitAnd(SAR(temp, 1), 255)
    IN  IF src # 0
        THEN [s |-> setLogicResult(f, result, RESULT_BYTE, BitAnd(temp, 1), 0), ret |-> result]
        ELSE [s |-> f, ret |-> dst]

fnSARb(f, dst, src) ==
    LET n == IF src > 8 THEN 9 ELSE src
        temp == SAR(SAR(SHL(dst, 24), 24), n - 1)
        result == BitAnd(SAR(temp, 1), 255)
    IN  IF src # 0
        THEN [s |-> setLogicResult(f, result, RESULT_BYTE, BitAnd(temp, 1), 0), ret |-> result]
        ELSE [s |-> f, ret |-> dst]

fnSARw(f, dst, src) ==
    LET n == IF src > 16 THEN 17 ELSE src
        temp == SAR(SAR(SHL(dst, 16), 16), n - 1)
        result == BitAnd(SAR(temp, 1), 65535)
    IN  IF src # 0
        THEN [s |-> setLogicResult(f, result, RESULT_WORD, BitAnd(temp, 1), 0), ret |-> result]
        ELSE [s |-> f, ret |-> dst]

fnSHLb(f, dst, src) ==
    LET carry == IF src > 8 THEN 0 ELSE SHL(dst, src - 1)
        result == IF src > 8 THEN 0 ELSE BitAnd(SHL(carry, 1), 255)
    IN  IF src # 0
        THEN [s |-> setLogicResult(f, result, RESULT_BYTE, BitAnd(carry, RESULT_BYTE),
                                   BitAnd(BitXor(result, carry), RESULT_BYTE)),
              ret |-> result]
        ELSE [s |-> f, ret |-> dst]

fnSHLw(f, dst, src) ==
    LET carry == IF src > 16 THEN 0 ELSE SHL(dst, src - 1)
        result == IF src > 16 THEN 0 ELSE BitAnd(SHL(carry, 1), 65535)
    IN  IF src # 0
        THEN [s |-> setLogicResult(f, result, RESULT_WORD, BitAnd(carry, RESULT_WORD),
                                   BitAnd(BitXor(result, carry), RESULT_WORD)),
              ret |-> result]
        ELSE [s |-> f, ret |-> dst]

\* the overflow argument is taken from dst after the result is assigned to it
fnSHRb(f, dst, src) ==
    LET temp == IF src > 8 THEN 0 ELSE SAR(dst, src - 1)
        result == BitAnd(SAR(temp, 1), 255)
    IN  IF src # 0
        THEN [s |-> setLogicResult(f, result, RESULT_BYTE, BitAnd(temp, 1),
                                   BitAnd(result, RESULT_BYTE)),
              ret |-> result]
        ELSE [s |-> f, ret |-> dst]

fnSHRw(f, dst, src) ==
    LET temp == IF src > 16 THEN 0 ELSE SAR(dst, src - 1)
        result == BitAnd(SAR(temp, 1), 65535)
    IN  IF src # 0
        THEN [s |-> setLogicResult(f, result, RESULT_WORD, BitAnd(temp, 1),
                                   BitAnd(result, RESULT_WORD)),
              ret |-> result]
        ELSE [s |-> f, ret |-> dst]

\* setRotateResult that always clears OF
setRotateResultNoOverflow(f, result, carry, size) ==
    clearOF(IF BitAnd(carry, size) # 0 THEN setCF(f) ELSE clearCF(f))

\* setRotateResult(result, carry, size)
setRotateResult(f, result, carry, size) ==
    LET f1 == IF BitAnd(carry, size) # 0 THEN setCF(f) ELSE clearCF(f)
    IN  IF BitAnd(BitXor(result, carry), size) # 0 THEN setOF(f1) ELSE clearOF(f1)

fnROLb(f, dst, src) ==
    LET shift == BitAnd(src, 7)
        result == IF shift = 0 THEN dst
                  ELSE BitAnd(BitOr(SHL(dst, shift), SAR(dst, 8 - shift)), 255)
        carry == IF shift = 0 THEN SHL(dst, 7) ELSE SHL(dst, shift - 1)
    IN  IF src # 0
        THEN [s |-> setRotateResult(f, result, carry, RESULT_BYTE), ret |-> result]
        ELSE [s |-> f, ret |-> dst]

fnROLw(f, dst, src) ==
    LET shift == BitAnd(src, 15)
        result == IF shift = 0 THEN dst
                  ELSE BitAnd(BitOr(SHL(dst, shift), SAR(dst, 16 - shift)), 65535)
        carry == IF shift = 0 THEN SHL(dst, 15) ELSE SHL(dst, shift - 1)
    IN  IF src # 0
        THEN [s |-> setRotateResult(f, result, carry, RESULT_WORD), ret |-> result]
        ELSE [s |-> f, ret |-> dst]

fnRORb(f, dst, src) ==
    LET shift == BitAnd(src, 7)
        result == IF shift = 0 THEN dst
                  ELSE BitAnd(BitOr(SAR(dst, shift), SHL(dst, 8 - shift)), 255)
        carry == IF shift = 0 THEN dst ELSE SHL(dst, 8 - shift)
    IN  IF src # 0
        THEN [s |-> setRotateResult(f, result, carry, RESULT_BYTE), ret |-> result]
        ELSE [s |-> f, ret |-> dst]

fnRORw(f, dst, src) ==
    LET shift == BitAnd(src, 15)
        result == IF shift = 0 THEN dst
                  ELSE BitAnd(BitOr(SAR(dst, shift), SHL(dst, 16 - shift)), 65535)
        carry == IF shift = 0 THEN dst ELSE SHL(dst, 16 - shift)
    IN  IF src # 0
        THEN [s |-> setRotateResult(f, result, carry, RESULT_WORD), ret |-> result]
        ELSE [s |-> f, ret |-> dst]

fnRCLb(f, dst, src) ==
    LET carry == getCarry(f)
        shift == BitAnd(src, f.nShiftCountMask) % 9
        result == IF shift = 0 THEN dst
                  ELSE BitAnd(BitOr(BitOr(SHL(dst, shift), SHL(carry, shift - 1)),
                                    SAR(dst, 9 - shift)), 255)
        carry1 == IF shift = 0 THEN SHL(carry, 7) ELSE SHL(dst, shift - 1)
    IN  IF src # 0
        THEN [s |-> setRotateResult(f, result, carry1, RESULT_BYTE), ret |-> result]
        ELSE [s |-> f, ret |-> dst]

fnRCLw(f, dst, src) ==
    LET carry == getCarry(f)
        shift == BitAnd(src, f.nShiftCountMask) % 17
        result == IF shift = 0 THEN dst
                  ELSE BitAnd(BitOr(BitOr(SHL(dst, shift), SHL(carry, shift - 1)),
                                    SAR(dst, 17 - shift)), 65535)
        carry1 == IF shift = 0 THEN SHL(carry, 15) ELSE SHL(dst, shift - 1)
    IN  IF src # 0
        THEN [s |-> setRotateResult(f, result, carry1, RESULT_WORD), ret |-> result]
        ELSE [s |-> f, ret |-> dst]

fnRCRb(f, dst, src) ==
    LET carry == getCarry(f)
        shift == BitAnd(src, f.nShiftCountMask) % 9
        result == IF shift = 0 THEN dst
                  ELSE BitAnd(BitOr(BitOr(SAR(dst, shift), SHL(carry, 8 - shift)),
                                    SHL(dst, 9 - shift)), 255)
        carry1 == IF shift = 0 THEN SHL(carry, 7) ELSE SHL(dst, 8 - shift)
    IN  IF src # 0
        THEN [s |-> setRotateResult(f, result, carry1, RESULT_BYTE), ret |-> result]
        ELSE [s |-> f, ret |-> dst]

fnRCRw(f, dst, src) ==
    LET carry == getCarry(f)
        shift == BitAnd(src, f.nShiftCountMask) % 17
        result == IF shift = 0 THEN dst
                  ELSE BitAnd(BitOr(BitOr(SAR(dst, shift), SHL(carry, 16 - shift)),
                                    SHL(dst, 17 - shift)), 65535)
        carry1 == IF shift = 0 THEN SHL(carry, 15) ELSE SHL(dst, 16 - shift)
    IN  IF src # 0
        THEN [s |-> setRotateResult(f, result, carry1, RESULT_WORD), ret |-> result]
        ELSE [s |-> f, ret |-> dst]


(***************************************************************************)
(* The state: the fields of the CPU; prev, the trace of the instruction    *)
(* before the last one; nSteps, the number of instructions issued; aluIn,  *)
(* the operands of an arithmetic instruction; aluOut, the arithmetic       *)
(* instruction that was executed.                                          *)
(***************************************************************************)
VARIABLES model, regCR0, regPS, regSP, regLIP, opLIP, opFlags, nFault,
          regEAX, regEDX, regMD16, regMD32, dataSize,
          segCS, segSS, segDS, segES, segFS, segGS, addrIDTLimit, mem,
          fComplete, fRunning, messages, nPush, trace, prev, nSteps,
          resultDst, resultSrc, resultArith, resultLogic, resultType, aluIn, aluOut

\* The state of the command-line loader (bin/pcjs): sMachine, what the machine
\* description file holds; machine, the object evaluated from it; objects, the
\* objects of each component (aComponents[i].objects); dbg and Component, the
\* cached components; iLoad, the indexes i and j of loadMachine; calls, the
\* constructor calls loadMachine has made.
VARIABLES sMachine, machine, objects, dbg, Component, iLoad, calls

loadVars == << sMachine, machine, objects, dbg, Component, iLoad, calls >>

\* the variables of the flag engine and of the arithmetic instructions
aluVars == << resultDst, resultSrc, resultArith, resultLogic, resultType, aluIn, aluOut >>

vars == << model, regCR0, regPS, regSP, regLIP, opLIP, opFlags, nFault,
           regEAX, regEDX, regMD16, regMD32, dataSize,
           segCS, segSS, segDS, segES, segFS, segGS, addrIDTLimit, mem,
           fComplete, fRunning, messages, nPush, trace, prev, nSteps, aluVars,
           loadVars >>

\* the CPU record of the current state
CPU ==
    [model |-> model, regCR0 |-> regCR0, regPS |-> regPS, regSP |-> regSP,
     regLIP |-> regLIP, opLIP |-> opLIP, opFlags |-> opFlags, nFault |-> nFault,
     regEAX |-> regEAX, regEDX |-> regEDX, regMD16 |-> regMD16, regMD32 |-> regMD32,
     dataSize |-> dataSize,
     segCS |-> segCS, segSS |-> segSS, segDS |-> segDS, segES |-> segES,
     segFS |-> segFS, segGS |-> segGS, addrIDTLimit |-> addrIDTLimit, mem |-> mem,
     fComplete |-> fComplete, fRunning |-> fRunning, messages |-> messages,
     nPush |-> nPush, trace |-> trace]

\* no arithmetic instruction was executed, and no helper has returned a value
NoOp == [op |-> "none"]

\* the loader before any machine description is given to it
NotLoaded ==
    /\ sMachine = << >> /\ machine = << >> /\ objects = << >>
    /\ dbg = {} /\ Component = "null" /\ iLoad = <<0, 0>> /\ calls = << >>

\* the registers, the memory and the records of the calls after an instruction
\* that left the CPU as t
CommitCPU(t) ==
    /\ model' = t.model /\ regCR0' = t.regCR0 /\ regPS' = t.regPS /\ regSP' = t.regSP
    /\ regLIP' = t.regLIP /\ opLIP' = t.opLIP /\ opFlags' = t.opFlags /\ nFault' = t.nFault
    /\ regEAX' = t.regEAX /\ regEDX' = t.regEDX /\ regMD16' = t.regMD16
    /\ regMD32' = t.regMD32 /\ dataSize' = t.dataSize
    /\ segCS' = t.segCS /\ segSS' = t.segSS /\ segDS' = t.segDS /\ segES' = t.segES
    /\ segFS' = t.segFS /\ segGS' = t.segGS /\ addrIDTLimit' = t.addrIDTLimit
    /\ mem' = t.mem /\ fComplete' = t.fComplete /\ fRunning' = t.fRunning
    /\ messages' = t.messages /\ nPush' = t.nPush /\ trace' = t.trace
    /\ prev' = trace
    /\ nSteps' = nSteps + 1
    /\ UNCHANGED loadVars

\* the state after an instruction that left the CPU as t
Commit(t) == CommitCPU(t) /\ UNCHANGED aluVars

\* the state after a helper that left the CPU as r.s and returned r.ret to
\* the dispatcher, out being the operands it was called with
Returned(r, out) ==
    /\ aluOut = NoOp
    /\ CommitCPU(r.s)
    /\ aluOut' = [out EXCEPT !.ret = r.ret]
    /\ UNCHANGED << resultDst, resultSrc, resultArith, resultLogic, resultType, aluIn >>

\* the dispatcher before it calls a helper: opLIP is the start of the
\* instruction, opFlags is zeroed, and the len bytes of the instruction are
\* fetched.  The first trace entry is the instruction and the registers the
\* helper starts from.
Dispatch(s, len, op, arg) ==
    LET s1 == [s EXCEPT !.opLIP = s.regLIP, !.opFlags = 0, !.regLIP = s.regLIP + len,
                        !.nPush = 0, !.trace = << >>]
    IN  Log(s1, [fn |-> op, arg |-> arg, cs |-> getCS(s1), ip |-> getIP(s1),
                 ps |-> getPS(s1), sp |-> getSP(s1), ss |-> s1.segSS.sel,
                 cpl |-> s1.segCS.cpl, pe |-> ProtMode(s1), nFault |-> s1.nFault,
                 lip |-> s.regLIP, ax |-> s.regEAX, dx |-> s.regEDX,
                 ds |-> s.segDS, es |-> s.segES, fs |-> s.segFS, gs |-> s.segGS])

\* an instruction is issued while IP and SP are within the bounds
Ready ==
    /\ nSteps < MaxSteps
    /\ getIP(CPU) >= 0 /\ getIP(CPU) <= MaxIP
    /\ regSP >= MinSP /\ regSP <= TopSP /\ regSP % 2 = 0

(***************************************************************************)
(* Initial states                                                          *)
(***************************************************************************)
\* a stack: the words frame, the first of them at SP, below TopSP; 0 elsewhere
StackImage(base, frame) ==
    [a \in StackAddrs |->
        LET i == (a - base - (TopSP - 2 * Len(frame))) \div 2 + 1
        IN  IF a >= base + TopSP - 2 * Len(frame) /\ a < base + TopSP THEN frame[i] ELSE 0]

InitPS == {PS_BIT1 + PS_IF, PS_BIT1 + PS_IF + PS_TF + PS_CF + PS_NT}

\* the Debugger: whether the last instruction completed (aFlags.fComplete),
\* and the message categories enabled
InitDebugger == {<<TRUE, {}>>, <<TRUE, {"FAULT", "HALT"}>>, <<FALSE, {}>>}

\* what is on the stack to begin with: nothing, an interrupt frame (which is
\* also a far return address), a far return to ring 3 with its SS:SP
RealFrames == {<< >>, <<18, 256, PS_BIT1 + PS_IF>>}
Ring0Frames == {<< >>, <<18, 8, PS_BIT1>>, <<18, 27, TopSP, 35>>}
Ring3Frames == {<< >>, <<18, 27, PS_BIT1 + PS_IF>>}

\* the data segment registers DS, ES, FS, GS that a ring can hold
Ring0Segs == {<<16, 40, 16, 35>>, <<35, 16, 40, 16>>}
Ring3Segs == {<<35, 40, 35, 0>>}

InitCommon ==
    /\ model \in Models
    /\ opFlags = 0 /\ nFault = -1
    /\ regEAX = 0 /\ regEDX = 0 /\ regMD16 = 0 /\ regMD32 = 0 /\ dataSize = 2
    /\ fRunning = TRUE
    /\ nPush = 0 /\ trace = << >> /\ prev = << >> /\ nSteps = 0
    /\ NotLoaded

InitRealRegs ==
    /\ regCR0 = 0
    /\ segCS = [sel |-> 256, base |-> 4096, acc |-> 0, dpl |-> 0, cpl |-> 0]
    /\ regLIP = 4096 + 16 /\ opLIP = 4096 + 16
    /\ segSS = NullSeg /\ segDS = NullSeg /\ segES = NullSeg
    /\ segFS = NullSeg /\ segGS = NullSeg
    /\ addrIDTLimit = 1023

InitProtRegs(cpl, d) ==
    /\ model >= MODEL_80286
    /\ regCR0 = CR0_MSW_PE
    /\ segCS = CodeSeg(IF cpl = 0 THEN 8 ELSE 27)
    /\ segSS = LoadedSeg(IF cpl = 0 THEN 16 ELSE 35)
    /\ regLIP = segCS.base + 16 /\ opLIP = regLIP
    /\ segDS = LoadedSeg(d[1]) /\ segES = LoadedSeg(d[2])
    /\ segFS = (IF model >= MODEL_80386 THEN LoadedSeg(d[3]) ELSE NullSeg)
    /\ segGS = (IF model >= MODEL_80386 THEN LoadedSeg(d[4]) ELSE NullSeg)

InitStack(f) == regSP = TopSP - 2 * Len(f) /\ mem = StackImage(segSS.base, f)
\* all flags are stored in regPS
FlagsStored ==
    /\ resultDst = 0 /\ resultSrc = 0 /\ resultArith = 0 /\ resultLogic = 0
    /\ resultType = 0
    /\ aluIn = [dst |-> 0, src |-> 0] /\ aluOut = NoOp

InitFlags(ps) ==
    /\ regPS = BitOr(BitAnd(ps, PS_STORED(model)), PS_SET(model))
    /\ FlagsStored

\* machines that differ in the Debugger and in the IDT the guest has set up
InitFaults ==
    /\ InitCommon
    /\ \E d \in InitDebugger : fComplete = d[1] /\ messages = d[2]
    /\ InitFlags(PS_BIT1 + PS_IF)
    /\ \/ InitRealRegs /\ InitStack(<< >>)
       \/ /\ InitProtRegs(0, <<35, 35, 35, 35>>)
          /\ addrIDTLimit \in IDTLimits
          /\ InitStack(<< >>)

\* machines that differ in the flags, the stack and the segment registers
InitTransfers ==
    /\ InitCommon
    /\ fComplete = TRUE /\ messages = {}
    /\ model \in {MODEL_8086, MODEL_80286, MODEL_80386}
    /\ \/ /\ InitRealRegs
          /\ \E ps \in InitPS : InitFlags(ps)
          /\ \E f \in RealFrames : InitStack(f)
       \/ /\ addrIDTLimit = 8 * 33 + 7
          /\ \E ps \in InitPS : InitFlags(ps)
          /\ \/ \E d \in Ring0Segs : InitProtRegs(0, d) /\ \E f \in Ring0Frames : InitStack(f)
             \/ \E d \in Ring3Segs : InitProtRegs(3, d) /\ \E f \in Ring3Frames : InitStack(f)
          \* the flags with NT set go with an empty stack
          /\ BitAnd(regPS, PS_NT) # 0 => regSP = TopSP

Init == InitFaults \/ InitTransfers

(***************************************************************************)
(* Instructions                                                            *)
(***************************************************************************)
FaultVectors == {GP_FAULT, UD_FAULT}
\* the error code and fHalt of a call of fnFault
FaultArgs == {<<Null, FALSE>>, <<24, FALSE>>, <<24, TRUE>>}
IntVectors == {32, 33, UD_FAULT}
CallSels == {8, 27, 40, 48}
CallOffs == {12}
RetfN == {0, 2}

\* an instruction that raises fault v with error code e
Fault(v, e, fHalt) ==
    /\ Ready
    /\ Commit(fnFault(Dispatch(CPU, 2, "Fault", v), v, e, fHalt))

\* INT n
INTn(n) ==
    /\ Ready
    /\ Commit(fnINT(Dispatch(CPU, 2, "INT", n), n, Null))

\* IRET
IRET ==
    /\ Ready
    /\ Commit(fnIRET(Dispatch(CPU, 1, "IRET", 0)))

\* CALL FAR off, sel
CALLF(off, sel) ==
    /\ Ready
    /\ Commit(fnCALLF(Dispatch(CPU, 5, "CALLF", sel), off, sel))

\* RETF n
RETF(n) ==
    /\ Ready
    /\ Commit(fnRETF(Dispatch(CPU, IF n = 0 THEN 1 ELSE 3, "RETF", n), n))

Next ==
    \/ \E v \in FaultVectors, a \in FaultArgs : Fault(v, a[1], a[2])
    \/ \E n \in IntVectors : INTn(n)
    \/ IRET
    \/ \E off \in CallOffs, sel \in CallSels : CALLF(off, sel)
    \/ \E n \in RetfN : RETF(n)

Spec == Init /\ [][Next]_vars

(***************************************************************************)
(* The divide instructions, on their own: a machine in real mode with a    *)
(* dividend in DX:AX, and one DIV or IDIV of a register operand.           *)
(***************************************************************************)
\* dividends: AX and DX at and around the edges of the byte and word ranges
DivAX == {0, 1, 5, 255, 256, 511, 512, 32767, 32768, 65281, 65531, 65535}
DivDX == {0, 1, 2, 32767, 32769, 65535}
\* divisors, as the unsigned value of the byte or word operand
DivBytes == {0, 1, 2, 3, 127, 128, 254, 255}
DivWords == {0, 1, 2, 3, 32767, 32768, 65534, 65535}

\* the number of divide instructions issued
MaxDivSteps == 1

InitDiv ==
    /\ model \in {MODEL_8086, MODEL_80286}
    /\ opFlags = 0 /\ nFault = -1
    /\ regEAX \in DivAX /\ regEDX \in DivDX /\ regMD16 = 0 /\ regMD32 = 0 /\ dataSize = 2
    /\ fRunning = TRUE /\ fComplete = TRUE /\ messages = {}
    /\ nPush = 0 /\ trace = << >> /\ prev = << >> /\ nSteps = 0
    /\ NotLoaded
    /\ InitFlags(PS_BIT1 + PS_IF)
    /\ InitRealRegs /\ InitStack(<< >>)

DivReady == Ready /\ nSteps < MaxDivSteps

\* DIV r/m8
DIVb(dst) ==
    /\ DivReady
    /\ Commit(fnDIVb(Dispatch(CPU, 2, "DIVb", dst), dst).s)

\* DIV r/m16
DIVw(dst) ==
    /\ DivReady
    /\ Commit(fnDIVw(Dispatch(CPU, 2, "DIVw", dst), dst).s)

\* IDIV r/m8
IDIVb(dst) ==
    /\ DivReady
    /\ Commit(fnIDIVb(Dispatch(CPU, 2, "IDIVb", dst), dst).s)

\* IDIV r/m16
IDIVw(dst) ==
    /\ DivReady
    /\ Commit(fnIDIVw(Dispatch(CPU, 2, "IDIVw", dst), dst).s)

NextDiv ==
    \/ \E dst \in DivBytes : DIVb(dst)
    \/ \E dst \in DivWords : DIVw(dst)
    \/ \E dst \in DivBytes : IDIVb(dst)
    \/ \E dst \in DivWords : IDIVw(dst)

SpecDiv == InitDiv /\ [][NextDiv]_vars

(***************************************************************************)
(* Properties.  trace holds the calls of the last instruction: trace[1] is *)
(* the instruction with the registers it started from, the entries after   *)
(* it are the helper calls in the order they were made.                    *)
(***************************************************************************)
\* the calls of fn in the last instruction
Calls(fn) == {i \in DOMAIN trace : trace[i].fn = fn}

\* the calls of fnFault that found condition kind(inFlight) on a CPU that
\* dispatches faults (model >= 80186, the instruction not stopped by the Debugger)
FaultCalls == {i \in Calls("fnFault") : model >= MODEL_80186 /\ fComplete}

\* C1: on a CPU model >= 80186, a fault raised through fnFault while another
\* fault is in flight (nFault >= 0) and nFault is not 0x08 goes on as vector
\* 0x08 with error code 0: that is what fnFaultMessage reports and, unless the
\* Debugger blocks the dispatch, what fnINT is called with, whatever vector
\* and error code the caller passed.
C1_DoubleFault ==
    \A i \in FaultCalls :
        (trace[i].inFlight >= 0 /\ trace[i].inFlight # DF_FAULT)
        => /\ i + 1 \in Calls("fnFaultMessage")
           /\ trace[i + 1].nFault = DF_FAULT /\ trace[i + 1].nError = 0
           /\ IF trace[i + 1].ret
              THEN \A j \in Calls("fnINT") : j < i
              ELSE /\ i + 2 \in Calls("fnINT")
                   /\ trace[i + 2].nIDT = DF_FAULT /\ trace[i + 2].nError = 0

\* a double fault was dispatched for a fault that came with another vector and
\* a non-zero error code
C1_Witness ==
    \E i \in FaultCalls :
        /\ trace[i].inFlight >= 0 /\ trace[i].inFlight # DF_FAULT
        /\ trace[i].nFault # DF_FAULT /\ trace[i].nError # Null /\ trace[i].nError # 0
        /\ i + 2 \in Calls("fnINT")
        /\ i + 3 \in Calls("dispatched") /\ trace[i + 3].nIDT = DF_FAULT

\* C2: a fault raised through fnFault while nFault equals 0x08 resets the CPU
\* with resetRegs and dispatches no interrupt: fnINT is not called and
\* nothing is pushed on the stack.
C2_TripleFault ==
    \A i \in FaultCalls :
        trace[i].inFlight = DF_FAULT
        => /\ i + 2 \in Calls("resetRegs")
           /\ \A j \in Calls("fnINT") \cup Calls("dispatched") : j < i
           /\ nPush = trace[i].nPush

\* a fault was raised while the double fault was being dispatched, and the
\* CPU was reset
C2_Witness ==
    \E i \in FaultCalls :
        /\ trace[i].inFlight = DF_FAULT
        /\ i - 1 \in Calls("fnINT") /\ trace[i - 1].nIDT = DF_FAULT
        /\ i + 2 \in Calls("resetRegs")
        /\ Len(trace) = i + 2

\* the fault is reported to the Debugger, which does not block it
Unblocked(i) == i + 1 \in Calls("fnFaultMessage") /\ ~trace[i + 1].ret

FaultDispatched ==
    /\ trace # << >> /\ trace[1].fn = "Fault"
    /\ Len(trace) = 5 /\ trace[5].fn = "dispatched"

StackWord(sp) == mem[segSS.base + sp]

\* INT n entered its handler without a fault, and IRET followed at once,
\* returning (no task return, no fault) at the privilege level INT n started at
IntThenIret ==
    /\ prev # << >> /\ prev[1].fn = "INT"
    /\ Len(prev) = 3 /\ prev[3].fn = "dispatched"
    /\ trace # << >> /\ trace[1].fn = "IRET"
    /\ trace[1].cpl = prev[1].cpl
    /\ ~(trace[1].pe /\ BitAnd(trace[1].ps, PS_NT) # 0)
    /\ Len(trace) = 2 /\ trace[2].fn = "setCSIP" /\ trace[2].ok

\* C5: fnINT (with no error code) followed immediately by fnIRET, with no
\* privilege change and no task return, restores PS, CS and IP to the values
\* they had before the interrupt and leaves SP at its value before the
\* interrupt; the frame holds IP, CS, PS from the top of the stack down
\* (pushed as PS, CS, IP).
C5_IntIretRoundTrip ==
    IntThenIret
    => /\ getPS(CPU) = prev[1].ps
       /\ getCS(CPU) = prev[1].cs
       /\ getIP(CPU) = prev[1].ip
       /\ regSP = prev[1].sp
       /\ trace[1].sp = BitAnd(prev[1].sp - 6, 65535)
       /\ StackWord(trace[1].sp) = prev[1].ip
       /\ StackWord(BitAnd(trace[1].sp + 2, 65535)) = prev[1].cs
       /\ StackWord(BitAnd(trace[1].sp + 4, 65535)) = prev[1].ps

\* the round trip in protected mode, through an interrupt gate that cleared IF
C5_Witness ==
    /\ IntThenIret
    /\ trace[1].pe
    /\ BitAnd(prev[1].ps, PS_IF) # 0 /\ BitAnd(trace[1].ps, PS_IF) = 0
    /\ prev[1].cs # trace[1].cs
    /\ getCS(CPU) = prev[1].cs

\* the far transfers of which the CS load failed
FailedLoads ==
    {i \in Calls("setCSIP") : trace[1].fn \in {"CALLF", "RETF", "IRET"} /\ ~trace[i].ok}

\* C6 (as stated): when the CS load of fnCALLF, fnRETF or fnIRET fails, the
\* stack pointer, the stack contents and PS are, at that point, exactly as
\* they were before the instruction started.
C6_Original ==
    \A i \in FailedLoads :
        /\ trace[i].sp = trace[1].sp
        /\ trace[i].nPush = 0
        /\ trace[i].ps = trace[1].ps

\* what holds of the three helpers: nothing was pushed and PS is unchanged
\* when the CS load fails, and fnCALLF has not moved SP either
C6_NothingPushed ==
    \A i \in FailedLoads :
        /\ trace[i].nPush = 0
        /\ trace[i].ps = trace[1].ps
        /\ trace[1].fn = "CALLF" => trace[i].sp = trace[1].sp

\* a far call entered, without a fault, code of the same privilege level, and
\* RETF 0 followed at once, without a fault
CallThenRet ==
    /\ prev # << >> /\ prev[1].fn = "CALLF"
    /\ Len(prev) = 2 /\ prev[2].fn = "setCSIP" /\ prev[2].ok
    /\ trace # << >> /\ trace[1].fn = "RETF" /\ trace[1].arg = 0
    /\ trace[1].cpl = prev[1].cpl
    /\ Len(trace) = 2 /\ trace[2].fn = "setCSIP" /\ trace[2].ok

\* C7: a far call through fnCALLF whose CS load succeeds without a privilege
\* change, followed by fnRETF(0), restores CS and IP to the return address and
\* SP to its value before the call; the frame holds IP, then CS (pushed as
\* CS, IP).
C7_CallRetRoundTrip ==
    CallThenRet
    => /\ getCS(CPU) = prev[1].cs
       /\ getIP(CPU) = prev[1].ip
       /\ regSP = prev[1].sp
       /\ trace[1].sp = BitAnd(prev[1].sp - 4, 65535)
       /\ StackWord(trace[1].sp) = prev[1].ip
       /\ StackWord(BitAnd(trace[1].sp + 2, 65535)) = prev[1].cs

\* the round trip in protected mode, through another code segment
C7_Witness ==
    /\ CallThenRet
    /\ trace[1].pe
    /\ prev[1].cs # trace[1].cs
    /\ prev[1].ip # trace[1].ip
    /\ getCS(CPU) = prev[1].cs

\* a far return that lowered the privilege (raised CPL), without a fault
ReturnedOutward ==
    /\ trace # << >> /\ trace[1].fn = "RETF"
    /\ Len(trace) = 2 /\ trace[2].fn = "setCSIP" /\ trace[2].ok
    /\ segCS.cpl > trace[1].cpl

\* the segment register must not be kept at privilege level cpl
MustNull(seg, cpl) ==
    /\ BitAnd(seg.sel, SEL_MASK) # 0
    /\ seg.dpl < cpl
    /\ ~IsConforming(seg.acc)

\* C8 (as stated): after a far return that lowered privilege, each of DS, ES,
\* FS and GS that holds a non-null selector whose DPL is less than the new
\* CPL, and is not a conforming code segment, holds the null selector; the
\* others are unchanged.
C8_Original ==
    ReturnedOutward
    => /\ segDS = IF MustNull(trace[1].ds, segCS.cpl) THEN NullSeg ELSE trace[1].ds
       /\ segES = IF MustNull(trace[1].es, segCS.cpl) THEN NullSeg ELSE trace[1].es
       /\ segFS = IF MustNull(trace[1].fs, segCS.cpl) THEN NullSeg ELSE trace[1].fs
       /\ segGS = IF MustNull(trace[1].gs, segCS.cpl) THEN NullSeg ELSE trace[1].gs

\* what holds: DS and ES are treated so; FS and GS are never touched
C8_OnlyDSES ==
    ReturnedOutward
    => /\ segDS = IF MustNull(trace[1].ds, segCS.cpl) THEN NullSeg ELSE trace[1].ds
       /\ segES = IF MustNull(trace[1].es, segCS.cpl) THEN NullSeg ELSE trace[1].es
       /\ segFS = trace[1].fs
       /\ segGS = trace[1].gs

\* the last instruction raised the divide error
DivError == Calls("fnDIVOverflow") # {}

\* x as a signed number of the given width
Signed8(x) == IF x % 256 >= 128 THEN (x % 256) - 256 ELSE x % 256
Signed16(x) == IF x % 65536 >= 32768 THEN (x % 65536) - 65536 ELSE x % 65536

\* a / b truncated toward zero, b # 0
TruncDiv(a, b) ==
    LET q == (IF a < 0 THEN -a ELSE a) \div (IF b < 0 THEN -b ELSE b)
    IN  IF (a < 0) = (b < 0) THEN q ELSE -q

\* C9 (as stated): fnDIVb and fnDIVw raise the divide error exactly when the
\* divisor is 0 or the quotient floor(dividend / divisor) does not fit: is
\* greater than 0xFF for AX / byte; is greater than 0xFFFF for DX:AX / word,
\* which is to say DX >= divisor.
C9_Original ==
    /\ (trace # << >> /\ trace[1].fn = "DIVb")
       => (DivError <=> (trace[1].arg = 0 \/ trace[1].ax \div trace[1].arg > 255))
    /\ (trace # << >> /\ trace[1].fn = "DIVw")
       => (DivError <=> (trace[1].arg = 0 \/ trace[1].dx >= trace[1].arg))

\* what holds of fnDIVw alone
C9_WordOnly ==
    (trace # << >> /\ trace[1].fn = "DIVw")
    => (DivError <=> (trace[1].arg = 0 \/ trace[1].dx >= trace[1].arg))

\* C10 (as stated): fnIDIVb and fnIDIVw raise the divide error exactly when
\* the divisor is 0 or the signed quotient, truncated toward zero, lies
\* outside -128..127 (byte) or -32768..32767 (word).
C10_Original ==
    /\ (trace # << >> /\ trace[1].fn = "IDIVb")
       => (DivError <=>
              \/ trace[1].arg = 0
              \/ TruncDiv(Signed16(trace[1].ax), Signed8(trace[1].arg)) \notin -128..127)
    /\ (trace # << >> /\ trace[1].fn = "IDIVw")
       => (DivError <=>
              \/ trace[1].arg = 0
              \/ TruncDiv(Int32(trace[1].dx, trace[1].ax), Signed16(trace[1].arg))
                     \notin -32768..32767)

\* C10, the byte divide alone, as stated
C10_ByteOnly ==
    (trace # << >> /\ trace[1].fn = "IDIVb")
    => (DivError <=>
           \/ trace[1].arg = 0
           \/ TruncDiv(Signed16(trace[1].ax), Signed8(trace[1].arg)) \notin -128..127)

\* C10, the word divide alone, as stated
C10_WordOnly ==
    (trace # << >> /\ trace[1].fn = "IDIVw")
    => (DivError <=>
           \/ trace[1].arg = 0
           \/ TruncDiv(Int32(trace[1].dx, trace[1].ax), Signed16(trace[1].arg))
                  \notin -32768..32767)

(***************************************************************************)
(* Divide: the divide error and the stored results.                        *)
(***************************************************************************)
DivOps == {"DIVb", "DIVw", "IDIVb", "IDIVw"}

\* the last instruction was a divide that raised the divide error
DivFailed == trace # << >> /\ trace[1].fn \in DivOps /\ DivError

\* the last instruction was a divide that completed
DivCompleted == trace # << >> /\ trace[1].fn \in DivOps /\ ~DivError

\* C11: when a divide instruction detects a divide error, IP is set to the
\* start of the instruction (opLIP - CS base) before fnINT dispatches vector 0
\* with no error code: the frame pushed is PS, CS and the offset of the divide
\* instruction, and AX and DX hold what they held before the instruction.
C11_DivErrorRewinds ==
    DivFailed
    => /\ Len(trace) = 4
       /\ trace[2].fn = "fnDIVOverflow"
       /\ trace[3].fn = "fnINT" /\ trace[3].nIDT = DIV_ERR /\ trace[3].nError = Null
       /\ trace[3].lip = trace[1].lip
       /\ trace[4].fn = "dispatched"
       /\ nPush = 3
       /\ regSP = BitAnd(trace[1].sp - 6, 65535)
       /\ StackWord(regSP) = trace[1].ip - 2
       /\ StackWord(BitAnd(regSP + 2, 65535)) = trace[1].cs
       /\ StackWord(BitAnd(regSP + 4, 65535)) = trace[1].ps
       /\ regEAX = trace[1].ax /\ regEDX = trace[1].dx

\* a quotient overflow (the divisor is not 0) with AX and DX not 0 was
\* dispatched through vector 0
C11_Witness ==
    /\ DivFailed /\ trace[1].arg # 0
    /\ trace[1].ax # 0 /\ trace[1].dx # 0
    /\ Len(trace) = 4 /\ trace[4].fn = "dispatched" /\ trace[4].nIDT = DIV_ERR
    /\ StackWord(regSP) = trace[1].ip - 2

\* w + r for a number w = [hi, lo] and 0 <= r < 2^16
WideAdd(w, r) == Wide(w.hi + ((w.lo + r) \div 65536), (w.lo + r) % 65536)

Abs(x) == IF x < 0 THEN -x ELSE x

\* q and r are the quotient, truncated toward zero, and the remainder of a / b
SignedDivision(a, b, q, r) ==
    /\ a = q * b + r
    /\ Abs(r) < Abs(b)
    /\ q = TruncDiv(a, b)
    /\ (r = 0 \/ (r < 0) = (a < 0))

\* the stored results of a completed DIV
DivResultOK ==
    /\ trace[1].fn = "DIVb"
       => LET q == regEAX % 256
              r == regEAX \div 256
          IN  trace[1].ax = q * trace[1].arg + r /\ r < trace[1].arg /\ regEAX < 65536
    /\ trace[1].fn = "DIVw"
       => /\ WideAdd(WideMul(regEAX, trace[1].arg), regEDX) = Wide(trace[1].dx, trace[1].ax)
          /\ regEDX < trace[1].arg /\ regEAX < 65536

\* the stored results of a completed IDIV r/m8
IDivByteResultOK ==
    trace[1].fn = "IDIVb"
    => /\ regEAX \in 0..65535
       /\ SignedDivision(Signed16(trace[1].ax), Signed8(trace[1].arg),
                         Signed8(regEAX % 256), Signed8(regEAX \div 256))

\* the stored results of a completed IDIV r/m16
IDivWordResultOK ==
    trace[1].fn = "IDIVw"
    => /\ regEAX \in 0..65535 /\ regEDX \in 0..65535
       /\ SignedDivision(Int32(trace[1].dx, trace[1].ax), Signed16(trace[1].arg),
                         Signed16(regEAX), Signed16(regEDX))

\* C12 (as stated): whenever DIV or IDIV completes without a divide error,
\* the stored quotient q and remainder r satisfy dividend = q * divisor + r
\* with |r| < |divisor| (DIV: 0 <= r < divisor; IDIV: q truncated toward
\* zero, r with the sign of the dividend), q in AL and r in AH for a byte
\* divisor, q in AX and r in DX for a word divisor.
C12_Original ==
    DivCompleted => (DivResultOK /\ IDivByteResultOK /\ IDivWordResultOK)

\* what holds of DIV
C12_Unsigned == DivCompleted => DivResultOK

\* C12, of IDIV r/m8 alone
C12_SignedByte == DivCompleted => IDivByteResultOK

\* C12, of IDIV r/m16 alone
C12_SignedWord == DivCompleted => IDivWordResultOK

(***************************************************************************)
(* Arithmetic instructions: one instruction is executed on the operands    *)
(* aluIn, the first of which is in AX (AL for a byte instruction), from a  *)
(* state of the flag engine that earlier instructions left.                *)
(***************************************************************************)
AluDsts == {0, 1, 9, 15, 80, 127, 128, 129, 255, 256, 4095, 32767, 32768, 43690, 65280, 65535}
AluSrcs == {0, 1, 2, 7, 8, 9, 15, 16, 17, 33, 80, 127, 128, 255, 256, 32767, 32768, 65535}

\* dataMask: 16-bit and 32-bit operands
DataMasks == {65535, -1}
\* nShiftCountMask
ShiftCountMasks == {31, 255}

\* the flag engine with all flags stored in regPS
StoredFlags(ps) ==
    [regPS |-> BitOr(BitAnd(ps, PS_STORED(MODEL_80386)), PS_SET(MODEL_80386)),
     resultDst |-> 0, resultSrc |-> 0, resultArith |-> 0, resultLogic |-> 0, resultType |-> 0]

\* the states of the flag engine: all flags stored, clear or set; the flags
\* cached by a byte addition, with the stored flags clear (0xFF + 1) or set
\* (0x50 + 0x50); PF, ZF and SF cached by a word shift, CF and AF stored
FlagStates ==
    { StoredFlags(PS_IF),
      StoredFlags(PS_IF + PS_CACHED),
      setArithResult(StoredFlags(PS_IF), 255, 1, 256, RESULT_BYTE + RESULT_ALL, FALSE),
      setArithResult(StoredFlags(PS_IF + PS_CACHED), 80, 80, 160, RESULT_BYTE + RESULT_ALL, FALSE),
      setLogicResult(StoredFlags(PS_IF + PS_CF + PS_AF), 32768, RESULT_WORD, 1, 0) }

InitALU ==
    /\ model = MODEL_80386
    /\ opFlags = 0 /\ nFault = -1
    /\ regEDX = 0 /\ regMD16 = 0 /\ regMD32 = 0 /\ dataSize = 2
    /\ fRunning = TRUE /\ fComplete = TRUE /\ messages = {}
    /\ nPush = 0 /\ trace = << >> /\ prev = << >> /\ nSteps = 0
    /\ NotLoaded
    /\ InitRealRegs /\ InitStack(<< >>)
    /\ aluIn \in [dst : AluDsts, src : AluSrcs]
    /\ regEAX = aluIn.dst
    /\ \E p \in FlagStates :
           /\ regPS = p.regPS
           /\ resultDst = p.resultDst /\ resultSrc = p.resultSrc
           /\ resultArith = p.resultArith /\ resultLogic = p.resultLogic
           /\ resultType = p.resultType
    /\ aluOut = NoOp

\* the fields of the CPU that the arithmetic helpers use, at the start of an
\* instruction with the given dataMask and nShiftCountMask
ALU(dataMask, nShiftCountMask) ==
    [regPS |-> regPS, regEAX |-> regEAX, regEDX |-> regEDX, regMD16 |-> regMD16,
     regMD32 |-> regMD32, opFlags |-> 0,
     resultDst |-> resultDst, resultSrc |-> resultSrc, resultArith |-> resultArith,
     resultLogic |-> resultLogic, resultType |-> resultType,
     dataMask |-> dataMask, nShiftCountMask |-> nShiftCountMask]

\* the flag engine of the current state
Flags == ALU(65535, 31)

\* the low byte of AX
AL == regEAX % 256

\* the instruction op on dst and src left the CPU as r.s and returned r.ret
ApplyALU(op, r, dst, src) ==
    /\ aluOut = NoOp
    /\ regPS' = r.s.regPS /\ regEAX' = r.s.regEAX /\ regEDX' = r.s.regEDX
    /\ regMD16' = r.s.regMD16 /\ regMD32' = r.s.regMD32 /\ opFlags' = r.s.opFlags
    /\ resultDst' = r.s.resultDst /\ resultSrc' = r.s.resultSrc
    /\ resultArith' = r.s.resultArith /\ resultLogic' = r.s.resultLogic
    /\ resultType' = r.s.resultType
    /\ aluOut' = [op |-> op, dst |-> dst, src |-> src, ret |-> r.ret,
                  flags |-> getFlags(Flags), type |-> resultType,
                  dataMask |-> r.s.dataMask, nShiftCountMask |-> r.s.nShiftCountMask]
    /\ UNCHANGED << model, regCR0, regSP, regLIP, opLIP, nFault, dataSize,
                    segCS, segSS, segDS, segES, segFS, segGS, addrIDTLimit, mem,
                    fComplete, fRunning, messages, nPush, trace, prev, nSteps, aluIn,
                    loadVars >>

\* the second operand is a byte
ByteSrc == aluIn.src <= 255

ADDb == ByteSrc /\ ApplyALU("ADDb", fnADDb(Flags, AL, aluIn.src), AL, aluIn.src)
ADDw == ApplyALU("ADDw", fnADDw(Flags, regEAX, aluIn.src), regEAX, aluIn.src)
SUBb == ByteSrc /\ ApplyALU("SUBb", fnSUBb(Flags, AL, aluIn.src), AL, aluIn.src)
SUBw == ApplyALU("SUBw", fnSUBw(Flags, regEAX, aluIn.src), regEAX, aluIn.src)
CMPb == ByteSrc /\ ApplyALU("CMPb", fnCMPb(Flags, AL, aluIn.src), AL, aluIn.src)
CMPw == ApplyALU("CMPw", fnCMPw(Flags, regEAX, aluIn.src), regEAX, aluIn.src)
INCb == ApplyALU("INCb", fnINCb(Flags, AL), AL, 1)
INCw == ApplyALU("INCw", fnINCw(Flags, regEAX), regEAX, 1)
INCr(m) == ApplyALU("INCr", fnINCr(ALU(m, 31), regEAX), regEAX, 1)
DECb == ApplyALU("DECb", fnDECb(Flags, AL), AL, 1)
DECw == ApplyALU("DECw", fnDECw(Flags, regEAX), regEAX, 1)
DECr(m) == ApplyALU("DECr", fnDECr(ALU(m, 31), regEAX), regEAX, 1)
ANDb == ByteSrc /\ ApplyALU("ANDb", fnANDb(Flags, AL, aluIn.src), AL, aluIn.src)
ANDw == ApplyALU("ANDw", fnANDw(Flags, regEAX, aluIn.src), regEAX, aluIn.src)
ORb == ByteSrc /\ ApplyALU("ORb", fnORb(Flags, AL, aluIn.src), AL, aluIn.src)
ORw == ApplyALU("ORw", fnORw(Flags, regEAX, aluIn.src), regEAX, aluIn.src)
XORb == ByteSrc /\ ApplyALU("XORb", fnXORb(Flags, AL, aluIn.src), AL, aluIn.src)
XORw == ApplyALU("XORw", fnXORw(Flags, regEAX, aluIn.src), regEAX, aluIn.src)
TESTb == ByteSrc /\ ApplyALU("TESTb", fnTESTb(Flags, AL, aluIn.src), AL, aluIn.src)
TESTw == ApplyALU("TESTw", fnTESTw(Flags, regEAX, aluIn.src), regEAX, aluIn.src)
MULb == ByteSrc /\ ApplyALU("MULb", fnMULb(Flags, aluIn.src), AL, aluIn.src)
MULw == ApplyALU("MULw", fnMULw(Flags, aluIn.src), regEAX, aluIn.src)
IMULb == ByteSrc /\ ApplyALU("IMULb", fnIMULb(Flags, aluIn.src), AL, aluIn.src)
IMULw == ApplyALU("IMULw", fnIMULw(Flags, aluIn.src), regEAX, aluIn.src)
SARb == ByteSrc /\ ApplyALU("SARb", fnSARb(Flags, AL, aluIn.src), AL, aluIn.src)
SARw == ByteSrc /\ ApplyALU("SARw", fnSARw(Flags, regEAX, aluIn.src), regEAX, aluIn.src)
SHLb == ByteSrc /\ ApplyALU("SHLb", fnSHLb(Flags, AL, aluIn.src), AL, aluIn.src)
SHLw == ByteSrc /\ ApplyALU("SHLw", fnSHLw(Flags, regEAX, aluIn.src), regEAX, aluIn.src)
SHRb == ByteSrc /\ ApplyALU("SHRb", fnSHRb(Flags, AL, aluIn.src), AL, aluIn.src)
SHRw == ByteSrc /\ ApplyALU("SHRw", fnSHRw(Flags, regEAX, aluIn.src), regEAX, aluIn.src)
ROLb == ByteSrc /\ ApplyALU("ROLb", fnROLb(Flags, AL, aluIn.src), AL, aluIn.src)
ROLw == ByteSrc /\ ApplyALU("ROLw", fnROLw(Flags, regEAX, aluIn.src), regEAX, aluIn.src)
RORb == ByteSrc /\ ApplyALU("RORb", fnRORb(Flags, AL, aluIn.src), AL, aluIn.src)
RORw == ByteSrc /\ ApplyALU("RORw", fnRORw(Flags, regEAX, aluIn.src), regEAX, aluIn.src)
RCLb(m) == ByteSrc /\ ApplyALU("RCLb", fnRCLb(ALU(65535, m), AL, aluIn.src), AL, aluIn.src)
RCLw(m) == ByteSrc /\ ApplyALU("RCLw", fnRCLw(ALU(65535, m), regEAX, aluIn.src), regEAX, aluIn.src)
RCRb(m) == ByteSrc /\ ApplyALU("RCRb", fnRCRb(ALU(65535, m), AL, aluIn.src), AL, aluIn.src)
RCRw(m) == ByteSrc /\ ApplyALU("RCRw", fnRCRw(ALU(65535, m), regEAX, aluIn.src), regEAX, aluIn.src)

NextALU ==
    \/ ADDb \/ ADDw \/ SUBb \/ SUBw \/ CMPb \/ CMPw
    \/ INCb \/ INCw \/ DECb \/ DECw
    \/ \E m \in DataMasks : INCr(m)
    \/ \E m \in DataMasks : DECr(m)
    \/ ANDb \/ ANDw \/ ORb \/ ORw \/ XORb \/ XORw \/ TESTb \/ TESTw
    \/ MULb \/ MULw \/ IMULb \/ IMULw
    \/ SARb \/ SARw \/ SHLb \/ SHLw \/ SHRb \/ SHRw
    \/ ROLb \/ ROLw \/ RORb \/ RORw
    \/ \E m \in ShiftCountMasks : RCLb(m)
    \/ \E m \in ShiftCountMasks : RCLw(m)
    \/ \E m \in ShiftCountMasks : RCRb(m)
    \/ \E m \in ShiftCountMasks : RCRw(m)

SpecALU == InitALU /\ [][NextALU]_vars

(***************************************************************************)
(* Multiplication.                                                         *)
(***************************************************************************)
\* the arithmetic instruction executed was op
Did(op) == aluOut.op = op

\* hi * 2^16 + lo = a * b, for 0 <= hi, lo, a, b < 2^16: both sides are below
\* 2^32 and agree modulo three pairwise coprime numbers whose product is
\* above 2^32
IsProduct(hi, lo, a, b) ==
    \A m \in {32768, 32767, 32765} :
        ((hi % m) * (65536 % m) + lo) % m = ((a % m) * (b % m)) % m

\* CF and OF are both set or both clear
CarryOverflow(v) == (getCF(Flags) <=> v) /\ (getOF(Flags) <=> v)

\* C13: MUL and IMUL store the full double-width product (AX for a byte
\* operand, DX:AX for a word operand); MUL sets CF and OF exactly when the
\* upper half of the product is not zero, IMUL sets CF and OF exactly when
\* the upper half is not the sign extension of the lower half; otherwise
\* both are clear.
C13_Products ==
    /\ Did("MULb")
       => /\ regEAX = aluOut.dst * aluOut.src
          /\ CarryOverflow(regEAX \div 256 # 0)
    /\ Did("MULw")
       => /\ regEAX \in 0..65535 /\ regEDX \in 0..65535
          /\ IsProduct(regEDX, regEAX, aluOut.dst, aluOut.src)
          /\ CarryOverflow(regEDX # 0)
    /\ Did("IMULb")
       => /\ regEAX \in 0..65535
          /\ Signed16(regEAX) = Signed8(aluOut.dst) * Signed8(aluOut.src)
          /\ CarryOverflow(regEAX \div 256 # (IF regEAX % 256 >= 128 THEN 255 ELSE 0))
    /\ Did("IMULw")
       => /\ regEAX \in 0..65535 /\ regEDX \in 0..65535
          /\ Int32(regEDX, regEAX) = Signed16(aluOut.dst) * Signed16(aluOut.src)
          /\ CarryOverflow(regEDX # (IF regEAX >= 32768 THEN 65535 ELSE 0))

\* IMUL of the words -1 and -32768: the product 0x00008000 does not fit in a
\* word, and the flags that were cached said CF = 0
C13_Witness ==
    /\ Did("IMULw") /\ aluOut.dst = 65535 /\ aluOut.src = 32768
    /\ regEDX = 0 /\ regEAX = 32768
    /\ BitAnd(aluOut.type, RESULT_CF) # 0 /\ BitAnd(aluOut.flags, PS_CF) = 0
    /\ getCF(Flags)

(***************************************************************************)
(* Addition and subtraction: the flags of the Intel reference.             *)
(***************************************************************************)
\* 2^w for the width of the byte and of the word instructions
Range(op) == IF op \in {"ADDb", "SUBb", "CMPb", "INCb", "DECb"} THEN 256 ELSE 65536

\* x as a signed number of the width with the range n
Signed(x, n) == IF x % n >= n \div 2 THEN (x % n) - n ELSE x % n

\* the flags that the flag engine gives are cf, pf, af, zf, sf, of
FlagsAre(cf, pf, af, zf, sf, of) ==
    /\ getCF(Flags) <=> cf
    /\ getPF(Flags) <=> pf
    /\ getAF(Flags) <=> af
    /\ getZF(Flags) <=> zf
    /\ getSF(Flags) <=> sf
    /\ getOF(Flags) <=> of

\* PF, ZF and SF of the result r of the width with the range n
EvenParity(r) == BitCount(r % 256) % 2 = 0
IsZero(r, n) == r % n = 0
IsNegative(r, n) == r % n >= n \div 2

\* the reference flags of a + b
AddFlags(a, b, n) ==
    FlagsAre(a + b >= n, EvenParity(a + b), (a % 16) + (b % 16) >= 16,
             IsZero(a + b, n), IsNegative(a + b, n),
             Signed(a, n) + Signed(b, n) \notin -(n \div 2)..(n \div 2 - 1))

\* C14: ADD at byte and word width returns (a + b) mod 2^w, and the flags
\* read from the cached dst, src, result and width are those of the Intel
\* reference: CF the carry out of the most significant bit, PF the even
\* parity of the low byte of the result, AF the carry out of bit 3, ZF the
\* result being zero at width w, SF its most significant bit, OF the signed
\* overflow.
C14_AddFlags ==
    (Did("ADDb") \/ Did("ADDw"))
    => /\ aluOut.ret = (aluOut.dst + aluOut.src) % Range(aluOut.op)
       /\ AddFlags(aluOut.dst, aluOut.src, Range(aluOut.op))

\* the byte addition 0x50 + 0x50 = 0xA0 gave CF = 0, PF = 1, AF = 0, ZF = 0,
\* SF = 1, OF = 1 when all six flags were set before
C14_Witness ==
    /\ Did("ADDb") /\ aluOut.dst = 80 /\ aluOut.src = 80 /\ aluOut.ret = 160
    /\ aluOut.flags = PS_CACHED
    /\ FlagsAre(FALSE, TRUE, FALSE, FALSE, TRUE, TRUE)

\* SUB or CMP was executed
DidSubtract == aluOut.op \in {"SUBb", "SUBw", "CMPb", "CMPw"}

\* the value that SUB returns, and CMP returning its first operand with
\* NOWRITE set
SubtractReturns ==
    /\ aluOut.op \in {"SUBb", "SUBw"}
       => aluOut.ret = (aluOut.dst - aluOut.src) % Range(aluOut.op)
    /\ aluOut.op \in {"CMPb", "CMPw"}
       => aluOut.ret = aluOut.dst /\ BitAnd(opFlags, OPFLAG_NOWRITE) # 0

\* the reference CF, AF and OF of a - b
Borrow(a, b) == a < b
AuxBorrow(a, b) == a % 16 < b % 16
SubOverflow(a, b, n) == Signed(a, n) - Signed(b, n) \notin -(n \div 2)..(n \div 2 - 1)

\* the reference PF, ZF and SF of a - b are the flags of the flag engine f
SubResultFlags(f, a, b, n) ==
    /\ getPF(f) <=> EvenParity(a - b)
    /\ getZF(f) <=> a = b
    /\ getSF(f) <=> IsNegative(a - b, n)

\* the reference CF, AF and OF of a - b are the flags of the flag engine f
SubCarryFlags(f, a, b, n) ==
    /\ getCF(f) <=> Borrow(a, b)
    /\ getAF(f) <=> AuxBorrow(a, b)
    /\ getOF(f) <=> SubOverflow(a, b, n)

\* the cached values of a subtraction read as the addition A + S = D: the
\* result takes the place of D, the subtrahend (the cached S XOR A) that of S
\* and the first operand that of A
AsAddition(f) ==
    [f EXCEPT !.resultDst = f.resultArith,
              !.resultSrc = BitXor(f.resultSrc, f.resultArith),
              !.resultArith = f.resultDst]

DidIncDec == aluOut.op \in {"INCb", "INCw", "INCr", "DECb", "DECw", "DECr"}

\* INC r or DEC r was executed with a 32-bit operand size
DwordOperand == aluOut.op \in {"INCr", "DECr"} /\ aluOut.dataMask = -1

\* the value returned is zero, or negative, at the width of the operand
ResultIsZero ==
    IF DwordOperand THEN aluOut.ret = 0 ELSE IsZero(aluOut.ret, Range(aluOut.op))
ResultIsNegative ==
    IF DwordOperand THEN aluOut.ret < 0 ELSE IsNegative(aluOut.ret, Range(aluOut.op))

\* CF is what it was before the instruction
CarryKept == getCF(Flags) <=> (BitAnd(aluOut.flags, PS_CF) # 0)

\* PF, ZF and SF are those of the value returned, at the width of the operand
ResultFlags ==
    /\ getPF(Flags) <=> EvenParity(aluOut.ret)
    /\ getZF(Flags) <=> ResultIsZero
    /\ getSF(Flags) <=> ResultIsNegative

\* C16 as stated: INC and DEC leave CF as it was, and cache the other five
\* flags, which are read from the result at the width of the operand.
C16_Original ==
    DidIncDec
    => /\ CarryKept
       /\ BitAnd(resultType, RESULT_ALL) = RESULT_NOTCF
       /\ ResultFlags

\* INC and DEC leave CF as it was and cache the other five flags
C16_CarryPreserved ==
    DidIncDec => CarryKept /\ BitAnd(resultType, RESULT_ALL) = RESULT_NOTCF

\* with a byte or word operand PF, ZF and SF are those of the result
C16_WordOperands == DidIncDec /\ ~DwordOperand => ResultFlags

(***************************************************************************)
(* AND, OR, XOR and TEST.                                                  *)
(***************************************************************************)
DidLogic ==
    aluOut.op \in {"ANDb", "ANDw", "ORb", "ORw", "XORb", "XORw", "TESTb", "TESTw"}

\* the result of the logical operation
LogicValue ==
    CASE aluOut.op \in {"ANDb", "ANDw", "TESTb", "TESTw"} -> BitAnd(aluOut.dst, aluOut.src)
      [] aluOut.op \in {"ORb", "ORw"} -> BitOr(aluOut.dst, aluOut.src)
      [] aluOut.op \in {"XORb", "XORw"} -> BitXor(aluOut.dst, aluOut.src)

\* 2^w for the width of the logical operation
LogicRange == IF aluOut.op \in {"ANDb", "ORb", "XORb", "TESTb"} THEN 256 ELSE 65536

\* the flags that are cached
CachedFlags == BitAnd(resultType, RESULT_ALL)

\* CF = 0 and OF = 0, and PF, ZF and SF are those of the result
LogicResultFlags ==
    /\ ~getCF(Flags) /\ ~getOF(Flags)
    /\ getPF(Flags) <=> EvenParity(LogicValue)
    /\ getZF(Flags) <=> IsZero(LogicValue, LogicRange)
    /\ getSF(Flags) <=> IsNegative(LogicValue, LogicRange)

DidShift == aluOut.op \in {"SHLb", "SHLw", "SHRb", "SHRw", "SARb", "SARw"}

\* the width of the operand of a shift or rotate
Width == IF aluOut.op \in {"SHLb", "SHRb", "SARb", "ROLb", "RORb", "RCLb", "RCRb"}
         THEN 8 ELSE 16

\* bit k of x
Bit(x, k) == (x \div Pow2(k)) % 2

\* x shifted left by c at the width w, and x shifted right by c with zeros or
\* with the sign bit, for 1 <= c <= w
ShiftedLeft(x, c, w) == (x % Pow2(w - c)) * Pow2(c)
ShiftedRight(x, c) == x \div Pow2(c)
ShiftedRightSigned(x, c, w) == (Signed(x, Pow2(w)) \div Pow2(c)) % Pow2(w)

\* CF is the bit b
CarryIs(b) == getCF(Flags) <=> (b = 1)

\* C18: SHL, SHR and SAR at byte and word width with 1 <= count <= width
\* return the operand shifted by count (SHR fills with zeros, SAR with the
\* sign bit), and CF is the last bit shifted out: bit width - count of the
\* operand for SHL, bit count - 1 for SHR and SAR.
C18_Shifts ==
    DidShift /\ aluOut.src \in 1..Width
    => /\ aluOut.op \in {"SHLb", "SHLw"}
          => /\ aluOut.ret = ShiftedLeft(aluOut.dst, aluOut.src, Width)
             /\ CarryIs(Bit(aluOut.dst, Width - aluOut.src))
       /\ aluOut.op \in {"SHRb", "SHRw"}
          => /\ aluOut.ret = ShiftedRight(aluOut.dst, aluOut.src)
             /\ CarryIs(Bit(aluOut.dst, aluOut.src - 1))
       /\ aluOut.op \in {"SARb", "SARw"}
          => /\ aluOut.ret = ShiftedRightSigned(aluOut.dst, aluOut.src, Width)
             /\ CarryIs(Bit(aluOut.dst, aluOut.src - 1))

\* SAR of the byte 0x80 by 1 gave 0xC0 with CF = 0, SF = 1, ZF = 0
C18_Witness ==
    /\ Did("SARb") /\ aluOut.dst = 128 /\ aluOut.src = 1 /\ aluOut.ret = 192
    /\ ~getCF(Flags) /\ getSF(Flags) /\ ~getZF(Flags)

\* OF is the bit b
OverflowIs(b) == getOF(Flags) <=> (b = 1)

\* the most significant bit of x at the width of the operand
MSB(x) == Bit(x, Width - 1)

\* after SHL by 1, OF = (MSB of the result) XOR CF
C19_ShiftLeftOverflow ==
    aluOut.op \in {"SHLb", "SHLw"} /\ aluOut.src = 1
    => (getOF(Flags) <=> ((MSB(aluOut.ret) = 1) # getCF(Flags)))

\* after SHR by 1, OF = the MSB of the original operand
C19_ShiftRightOverflow ==
    aluOut.op \in {"SHRb", "SHRw"} /\ aluOut.src = 1 => OverflowIs(MSB(aluOut.dst))

\* after SAR by 1, OF = 0
C19_ShiftArithOverflow ==
    aluOut.op \in {"SARb", "SARw"} /\ aluOut.src = 1 => OverflowIs(0)

\* C19 as stated: for a shift by 1 of a byte or word operand, OF is (MSB of
\* the result) XOR CF after SHL, the MSB of the original operand after SHR,
\* and 0 after SAR.
C19_Original ==
    C19_ShiftLeftOverflow /\ C19_ShiftRightOverflow /\ C19_ShiftArithOverflow

(***************************************************************************)
(* Rotates.                                                                *)
(***************************************************************************)
DidRotate ==
    aluOut.op \in {"ROLb", "ROLw", "RORb", "RORw", "RCLb", "RCLw", "RCRb", "RCRw"}

RotatesLeft == aluOut.op \in {"ROLb", "ROLw", "RCLb", "RCLw"}
ThroughCarry == aluOut.op \in {"RCLb", "RCLw", "RCRb", "RCRw"}

\* one rotation by a single bit of the value r.v with the carry r.c, at the
\* width with the range n: the bit rotated out goes to the carry, and the bit
\* that comes in is the bit rotated out (ROL, ROR) or the carry of before
\* (RCL, RCR)
RotateStep(r, left, carry, n) ==
    LET out == IF left THEN r.v \div (n \div 2) ELSE r.v % 2
        in == IF carry THEN r.c ELSE out
    IN  [v |-> IF left THEN ((r.v * 2) % n) + in ELSE (r.v \div 2) + in * (n \div 2),
         c |-> out]

\* k rotations by a single bit
RECURSIVE Rotated(_, _, _, _, _)
Rotated(r, left, carry, n, k) ==
    IF k = 0 THEN r ELSE Rotated(RotateStep(r, left, carry, n), left, carry, n, k - 1)

\* the operand and the carry before the rotate
RotateInput == [v |-> aluOut.dst, c |-> IF BitAnd(aluOut.flags, PS_CF) # 0 THEN 1 ELSE 0]

\* the rotate returned the operand rotated by amount bits, and CF is the last
\* bit rotated out in steps single rotations
RotatedBy(amount, steps) ==
    /\ aluOut.ret = Rotated(RotateInput, RotatesLeft, ThroughCarry, Pow2(Width), amount).v
    /\ CarryIs(Rotated(RotateInput, RotatesLeft, ThroughCarry, Pow2(Width), steps).c)

\* ROL and ROR by count: the operand comes back after width rotations, so the
\* result is that of count mod width rotations, and the last bit rotated out
\* is that of ((count - 1) mod width) + 1 rotations
RotatedByCount ==
    RotatedBy(aluOut.src % Width, ((aluOut.src - 1) % Width) + 1)

\* after a rotate by 1, OF = CF XOR the MSB of the result
RotateOverflow ==
    aluOut.src = 1 => (getOF(Flags) <=> ((MSB(aluOut.ret) = 1) # getCF(Flags)))

\* the count of RCL and RCR after the mask nShiftCountMask
MaskedCount == BitAnd(aluOut.src, aluOut.nShiftCountMask)

\* C20 as stated: every rotate with a nonzero count rotates by the count
\* modulo width (ROL, ROR) or modulo width + 1 (RCL, RCR); CF is the last bit
\* rotated out, and OF = CF XOR the MSB of the result when count = 1.
C20_Original ==
    DidRotate /\ aluOut.src # 0
    => /\ ~ThroughCarry => RotatedByCount
       /\ ThroughCarry => RotatedBy(aluOut.src % (Width + 1), aluOut.src % (Width + 1))
       /\ RotateOverflow

\* C20: every rotate with a nonzero count rotates by the count modulo width
\* (ROL, ROR), or by the count masked with nShiftCountMask and then reduced
\* modulo width + 1 (RCL, RCR); CF is the last bit rotated out (for RCL and
\* RCR by 0 bits, CF as it was), and OF = CF XOR the MSB of the result when
\* count = 1.
C20_Rotates ==
    DidRotate /\ aluOut.src # 0
    => /\ ~ThroughCarry => RotatedByCount
       /\ ThroughCarry => RotatedBy(MaskedCount % (Width + 1), MaskedCount % (Width + 1))
       /\ RotateOverflow

\* RCL of the byte 0x80 by the count 33 with nShiftCountMask = 0x1f and CF
\* clear rotated by 1 bit, not by 33 mod 9 = 6: the result is 0 with CF = 1
C20_Witness ==
    /\ Did("RCLb") /\ aluOut.dst = 128 /\ aluOut.src = 33 /\ aluOut.nShiftCountMask = 31
    /\ BitAnd(aluOut.flags, PS_CF) = 0
    /\ aluOut.ret = 0 /\ getCF(Flags)

\* RCL of the byte 0x80 by 1 with CF clear gave 0 with CF = 1 and OF = 1
C20_CountOne ==
    /\ Did("RCLb") /\ aluOut.dst = 128 /\ aluOut.src = 1
    /\ BitAnd(aluOut.flags, PS_CF) = 0
    /\ aluOut.ret = 0 /\ getCF(Flags) /\ getOF(Flags)

\* OF is (MSB of the result) XOR (the bit below the MSB of the result)
OverflowIsTopBitsXor ==
    getOF(Flags) <=> (MSB(aluOut.ret) # Bit(aluOut.ret, Width - 2))

\* C21 as stated: after every rotate (ROL, ROR, RCL, RCR) by count = 1 of a
\* byte or word operand, with any incoming CF, OF equals (MSB of the result)
\* XOR (next-to-most-significant bit of the result).
C21_Original == DidRotate /\ aluOut.src = 1 => OverflowIsTopBitsXor

\* the same for the rotates to the right only, ROR and RCR
C21_RotateRight ==
    DidRotate /\ ~RotatesLeft /\ aluOut.src = 1 => OverflowIsTopBitsXor

\* after ROR by 1 the bit rotated out is both CF and the MSB of the result,
\* so that OF, set from CF XOR the MSB of the result, is clear
C21_RotateRightClear ==
    aluOut.op \in {"RORb", "RORw"} /\ aluOut.src = 1 => ~getOF(Flags)

(***************************************************************************)
(* Helpers that the dispatcher calls with the operands of a ModRM byte,    *)
(* on their own: one call of one helper, from machines that differ in the  *)
(* model, the mode, the registers and the flags.                           *)
(***************************************************************************)
\* fnPUSHw that pushes the operand as it was on every model
fnPUSHwOriginal(s, dst) ==
    LET pushsp == BitAnd(s.opFlags, OPFLAG_PUSHSP) # 0
    IN  [s |-> [pushWord(s, dst) EXCEPT !.opFlags = BitOr(@, OPFLAG_NOWRITE)],
         ret |-> IF pushsp THEN BitAnd(dst - 2, 65535) ELSE dst]

\* fnPUSHw(dst, src)
fnPUSHw(s, dst) ==
    LET pushsp == BitAnd(s.opFlags, OPFLAG_PUSHSP) # 0
        dst1 == IF pushsp THEN BitAnd(dst - 2, 65535) ELSE dst
        w == IF pushsp /\ s.model < MODEL_80286 THEN dst1 ELSE dst
    IN  [s |-> [pushWord(s, w) EXCEPT !.opFlags = BitOr(@, OPFLAG_NOWRITE)],
         ret |-> dst1]

\* opUndefined(): the handler of the opcodes whose behaviour is not settled;
\* it is not the one that generates UD_FAULT (that is opInvalid).  It raises
\* no fault; whether it stops the CPU is left open.
opUndefined(s, stops) ==
    Log([s EXCEPT !.fRunning = IF stops THEN FALSE ELSE @], [fn |-> "opUndefined"])

\* fnLEA(dst, src), regEA being the effective address of the ModRM byte
fnLEA(s, dst, regEA, stops) ==
    IF regEA = ADDR_INVALID
    THEN [s |-> opUndefined(s, stops), ret |-> dst]
    ELSE [s |-> s, ret |-> regEA]

\* the GDT of the machines the descriptor helpers run on: the segments of
\* GDT, and TSS descriptors after them
OpsGDT ==
    GDT \o << [acc |-> Acc(ACC_TYPE_TSS286, 0, TRUE),      base |-> 16384],  \* 0x38 TSS286
              [acc |-> Acc(ACC_TYPE_TSS286_BUSY, 0, TRUE), base |-> 16384],  \* 0x40 TSS286, busy
              [acc |-> Acc(ACC_TYPE_TSS386, 0, TRUE),      base |-> 20480],  \* 0x48 TSS386
              [acc |-> Acc(ACC_TYPE_TSS286, 0, FALSE),     base |-> 16384],  \* 0x50 TSS286, not present
              [acc |-> Acc(ACC_TYPE_LDT, 0, TRUE),         base |-> 24576] >> \* 0x58 LDT

\* the selector names a descriptor of OpsGDT, and the descriptor it names
OpsInGDT(sel) == BitAnd(sel, SEL_LDT) = 0 /\ SelIndex(sel) < Len(OpsGDT)
OpsDesc(sel) == OpsGDT[SelIndex(sel) + 1]
\* the linear address of the descriptor, the GDT being at 0x800
OpsDescAddr(sel) == 2048 + 8 * SelIndex(sel)

\* JavaScript undefined (a property that the object does not have), a value
\* that is no type, selector or access word
Undefined == -2

\* the task register before LTR
NoTSS == [sel |-> 0, base |-> 0, acc |-> 0, type |-> 0, addrDesc |-> ADDR_INVALID]

\* segTSS.load(sel): the selector must name a present TSS that is not busy
\* (a TSS386 on the 80386 only); otherwise a fault is raised with the
\* selector as error code and ADDR_INVALID is returned
segTSSload(s, seg, sel) ==
    LET null == BitAnd(sel, SEL_MASK) = 0
        acc == OpsDesc(sel).acc
        type == BitAnd(acc, ACC_TYPE_MASK)
        isTSS == \/ type = ACC_TYPE_TSS286
                 \/ type = ACC_TYPE_TSS386 /\ s.model >= MODEL_80386
        entry(ok) == [fn |-> "segTSS.load", sel |-> sel, ok |-> ok]
        nError == BitAnd(sel, ERRCODE_SELMASK)
    IN  IF null \/ ~OpsInGDT(sel)
        THEN [s |-> fnFault(Log(s, entry(FALSE)), GP_FAULT, nError, FALSE),
              ret |-> ADDR_INVALID, seg |-> seg]
        ELSE IF ~isTSS
        THEN [s |-> fnFault(Log(s, entry(FALSE)), GP_FAULT, nError, FALSE),
              ret |-> ADDR_INVALID, seg |-> seg]
        ELSE IF ~IsPresent(acc)
        THEN [s |-> fnFault(Log(s, entry(FALSE)), NP_FAULT, nError, FALSE),
              ret |-> ADDR_INVALID, seg |-> seg]
        ELSE [s |-> Log(s, entry(TRUE)), ret |-> OpsDesc(sel).base,
              seg |-> [sel |-> sel, base |-> OpsDesc(sel).base, acc |-> acc, type |-> type,
                       addrDesc |-> OpsDescAddr(sel)]]

\* fnLTR(dst, src): X86.DESC.ACC.TYPE has no TSS_BUSY (X86.DESC.ACC has), so
\* the type assigned to the task register is undefined
fnLTR(s, segTSS, dst) ==
    LET \* what follows segTSS.load(dst), which gave r
        loaded(r) ==
            IF r.ret # ADDR_INVALID
            THEN [s |-> r.s, ret |-> dst,
                  segTSS |-> [r.seg EXCEPT !.acc = BitOr(@, ACC_TYPE_LDT), !.type = Undefined],
                  written |-> {<< r.seg.addrDesc + ACC_OFFSET, BitOr(r.seg.acc, ACC_TYPE_LDT) >>}]
            ELSE [s |-> r.s, ret |-> dst, segTSS |-> r.seg, written |-> {}]
    IN  loaded(segTSSload([s EXCEPT !.opFlags = BitOr(@, OPFLAG_NOWRITE)], segTSS, dst))

\* setZF() and clearZF(), all flags being stored in regPS
setZF(s) == [s EXCEPT !.regPS = BitOr(@, PS_ZF)]
clearZF(s) == [s EXCEPT !.regPS = BitClear(@, PS_ZF)]

\* segVER.load(sel, true): the permissive load succeeds for every segment
\* descriptor within the table, raises no fault and changes no privilege
segVERload(s, sel) ==
    LET ok == OpsInGDT(sel) /\ BitAnd(OpsDesc(sel).acc, ACC_TYPE_SEG) # 0
    IN  IF ok
        THEN [s |-> Log(s, [fn |-> "segVER.load", sel |-> sel, ok |-> TRUE]),
              ret |-> OpsDesc(sel).base,
              seg |-> [sel |-> sel, base |-> OpsDesc(sel).base, acc |-> OpsDesc(sel).acc,
                       dpl |-> DescDPL(OpsDesc(sel).acc)]]
        ELSE [s |-> Log(s, [fn |-> "segVER.load", sel |-> sel, ok |-> FALSE]),
              ret |-> ADDR_INVALID,
              seg |-> [sel |-> sel, base |-> 0, acc |-> 0, dpl |-> 0]]

\* x & y, where y may be undefined: ToInt32(undefined) is 0
AndUndefined(x, y) == IF y = Undefined THEN 0 ELSE BitAnd(x, y)

\* X86.DESC.ACC.MASK: X86.DESC.ACC has no such property
ACC_MASK == Undefined

\* fnLAR(dst, src)
fnLAR(s, dst, src) ==
    LET \* what follows segVER.load(src, true), which gave r
        loaded(r) ==
            IF r.ret # ADDR_INVALID
               /\ r.seg.dpl >= r.s.segCS.cpl /\ r.seg.dpl >= BitAnd(src, SEL_RPL)
            THEN [s |-> setZF(r.s), ret |-> AndUndefined(r.seg.acc, ACC_MASK), segVER |-> r.seg]
            ELSE [s |-> clearZF(r.s), ret |-> dst, segVER |-> r.seg]
    IN  loaded(segVERload(s, src))

\* selectors given to LAR
LarSels == {0, 8, 11, 16, 20, 24, 27, 32, 35, 40, 48, 56, 96}

\* selectors given to the descriptor helpers
OpsSels == {0, 16, 56, 59, 64, 72, 80, 88, 96}

\* effective addresses of a ModRM byte
OpsEA == {ADDR_INVALID, 0, 4660}

\* stack pointers and values of AX the helpers start from
OpsSP == {0, 2, TopSP}
OpsAX == {0, 4660, 65535}

\* the memory the helpers reach: the stack areas, and the words at the bottom
\* and at the top of the 64K of a stack segment
OpsAddrs == StackAddrs \cup {0, 65534, 256, 256 + 65534}

InitOps ==
    /\ model \in Models
    /\ opFlags = 0 /\ nFault = -1
    /\ regEAX \in OpsAX /\ regEDX = 0 /\ regMD16 = 0 /\ regMD32 = 0 /\ dataSize = 2
    /\ fRunning = TRUE /\ fComplete = TRUE /\ messages = {}
    /\ nPush = 0 /\ trace = << >> /\ prev = << >> /\ nSteps = 0
    /\ NotLoaded
    /\ InitFlags(PS_BIT1 + PS_IF)
    /\ \/ InitRealRegs
       \/ /\ \E cpl \in {0, 3} : InitProtRegs(cpl, <<35, 35, 35, 35>>)
          /\ addrIDTLimit = 8 * 33 + 7
    /\ regSP \in OpsSP /\ mem = [a \in OpsAddrs |-> 0]

\* PUSH r/m16: the operand is SP (the decoder has set OPFLAG.PUSHSP) or AX
PUSHw(pushsp) ==
    LET dst == IF pushsp THEN regSP ELSE regEAX
        decoded(s) == [s EXCEPT !.opFlags = IF pushsp THEN OPFLAG_PUSHSP ELSE 0]
    IN  Returned(fnPUSHw(decoded(Dispatch(CPU, 2, "PUSHw", dst)), dst),
                 [op |-> "PUSHw", dst |-> dst, src |-> Null, ret |-> Null,
                  pushsp |-> pushsp])

\* LEA AX, r/m
LEA(regEA, stops) ==
    Returned(fnLEA(Dispatch(CPU, 2, "LEA", regEA), regEAX, regEA, stops),
             [op |-> "LEA", dst |-> regEAX, src |-> regEA, ret |-> Null])

\* LTR r/m16, in protected mode
LTR(sel) ==
    LET \* the state after fnLTR, which gave r
        done(r) == Returned(r, [op |-> "LTR", dst |-> sel, src |-> Null, ret |-> Null,
                                segTSS |-> r.segTSS, written |-> r.written])
    IN  /\ ProtMode(CPU)
        /\ done(fnLTR(Dispatch(CPU, 3, "LTR", sel), NoTSS, sel))

\* the opFlags an instruction can have set when a fault is raised in it
OpsFlags == {0, OPFLAG_NOREAD, OPFLAG_NOWRITE, OPFLAG_NOREAD + OPFLAG_NOWRITE}

\* the faults that can be in flight when a fault is raised
OpsInFlight == {-1, GP_FAULT, DF_FAULT}

\* fault v is raised in the middle of an instruction that has left opFlags as
\* flags, with the fault inFlight in flight and aFlags.fComplete as fc
RaiseFault(v, flags, inFlight, fc) ==
    LET raised(s) == [s EXCEPT !.opFlags = flags, !.nFault = inFlight, !.fComplete = fc]
    IN  Returned([s |-> fnFault(raised(Dispatch(CPU, 2, "Fault", v)), v, 0, FALSE),
                  ret |-> Null],
                 [op |-> "fnFault", dst |-> flags, src |-> inFlight, ret |-> Null,
                  fc |-> fc])

\* LAR AX, r/m16 in protected mode, ZF being set or clear before it
LAR(sel, zf) ==
    LET \* the state after fnLAR, which gave r
        done(r) == Returned(r, [op |-> "LAR", dst |-> regEAX, src |-> sel, ret |-> Null,
                                segVER |-> r.segVER, zf |-> zf])
        flagged(s) == IF zf THEN setZF(s) ELSE clearZF(s)
    IN  /\ ProtMode(CPU)
        /\ done(fnLAR(flagged(Dispatch(CPU, 3, "LAR", sel)), regEAX, sel))

NextOps ==
    \/ \E pushsp \in BOOLEAN : PUSHw(pushsp)
    \/ \E sel \in LarSels, zf \in BOOLEAN : LAR(sel, zf)
    \/ \E v \in FaultVectors, flags \in OpsFlags, inFlight \in OpsInFlight, fc \in BOOLEAN :
           RaiseFault(v, flags, inFlight, fc)
    \/ \E sel \in OpsSels : LTR(sel)
    \/ \E regEA \in OpsEA, stops \in BOOLEAN : LEA(regEA, stops)

SpecOps == InitOps /\ [][NextOps]_vars

\* the word on top of the stack
TopOfStack == mem[segSS.base + regSP]

\* C22: PUSH SP (fnPUSHw with OPFLAG.PUSHSP set) pushes the post-decrement
\* value (SP - 2) mod 0x10000 on the 8086 and 8088 and the original SP on
\* the 80286 and later; on every model the value handed back for SP is
\* (SP - 2) mod 0x10000.
C22_PushSP ==
    Did("PUSHw") /\ aluOut.pushsp
    => /\ aluOut.ret = (aluOut.dst - 2) % 65536
       /\ regSP = (aluOut.dst - 2) % 65536
       /\ nPush = 1
       /\ model \in {MODEL_8086, MODEL_8088} => TopOfStack = (aluOut.dst - 2) % 65536
       /\ model >= MODEL_80286 => TopOfStack = aluOut.dst

\* PUSH SP with SP = 0 on an 8086 pushed 0xFFFE and handed back 0xFFFE
C22_Witness ==
    /\ Did("PUSHw") /\ aluOut.pushsp /\ aluOut.dst = 0 /\ model = MODEL_8086
    /\ aluOut.ret = 65534 /\ regSP = 65534 /\ TopOfStack = 65534

\* PUSH SP with SP = 2 on an 80286 pushed 2 and handed back 0
C22_Pushed286 ==
    /\ Did("PUSHw") /\ aluOut.pushsp /\ aluOut.dst = 2 /\ model = MODEL_80286
    /\ aluOut.ret = 0 /\ regSP = 0 /\ TopOfStack = 2

\* the last instruction raised the fault v: fnFault or fnINT was called with it
Raised(v) ==
    \/ \E i \in Calls("fnFault") : trace[i].nFault = v
    \/ \E i \in Calls("fnINT") : trace[i].nIDT = v

\* LEA was executed with a register operand
LeaOfRegister == Did("LEA") /\ aluOut.src = ADDR_INVALID

\* C23 as stated: LEA with a register operand (regEA = ADDR_INVALID) raises
\* the invalid-opcode exception UD (vector 0x06) and leaves the destination
\* register unchanged.
C23_Original == LeaOfRegister => Raised(UD_FAULT) /\ aluOut.ret = aluOut.dst

\* LEA with a register operand calls opUndefined and hands back the
\* destination as it was; it raises no fault and pushes nothing
C23_Undefined ==
    LeaOfRegister
    => /\ Calls("opUndefined") # {} /\ Calls("fnFault") = {} /\ Calls("fnINT") = {}
       /\ nPush = 0 /\ aluOut.ret = aluOut.dst

\* LEA with a memory operand hands back the effective address
C23_Address == Did("LEA") /\ aluOut.src # ADDR_INVALID => aluOut.ret = aluOut.src

(***************************************************************************)
(* IRET and the task return.                                               *)
(***************************************************************************)
\* the last instruction was IRET
IretIssued == trace # << >> /\ trace[1].fn = "IRET"

\* ... issued in protected mode with NT set
TaskReturn == IretIssued /\ trace[1].pe /\ BitAnd(trace[1].ps, PS_NT) # 0

\* the k-th word above the stack pointer IRET started with
IretWord(k) ==
    mem[(IF trace[1].pe THEN LoadedSeg(trace[1].ss).base ELSE 0)
        + BitAnd(trace[1].sp + 2 * k, 65535)]

\* IRET switched to the task of the back link without popping anything
SwitchedTask == Calls("switchTSS") # {} /\ regSP = trace[1].sp

\* IRET popped three words before it called setCSIP with the first as IP and
\* the second as CS, and the third became PS when CS was loaded
PoppedInOrder ==
    /\ Len(trace) >= 2 /\ trace[2].fn = "setCSIP"
    /\ trace[2].sp = BitAnd(trace[1].sp + 6, 65535)
    /\ Calls("fnFault") = {}
       => /\ trace[2].off = IretWord(0) /\ trace[2].sel = IretWord(1)
          /\ regPS = BitOr(BitAnd(IretWord(2), PS_STORED(model)), PS_SET(model))

\* C24 as stated: fnIRET performs a task switch, to the selector of the back
\* link of the current TSS and without popping anything, exactly when CR0.PE
\* and PS.NT are set; in every other case, real mode with NT set included,
\* it pops IP, CS and PS in that order.
C24_Original ==
    IretIssued
    => /\ TaskReturn => SwitchedTask
       /\ ~TaskReturn => PoppedInOrder /\ Calls("switchTSS") = {}

\* what holds when IRET is not a task return
C24_PopsOtherwise == IretIssued /\ ~TaskReturn => PoppedInOrder

\* the task return ends at the read of X86.TSS.PREV_TSS: no word is popped,
\* CS:IP and PS are as they were, and no task switch is made
C24_TaskReturnThrows ==
    TaskReturn
    => /\ Calls("TypeError") # {} /\ Calls("switchTSS") = {} /\ Calls("setCSIP") = {}
       /\ regSP = trace[1].sp /\ getCS(CPU) = trace[1].cs /\ getPS(CPU) = trace[1].ps

\* IRET in real mode with NT set popped the three words
C24_RealModeNT ==
    /\ IretIssued /\ ~trace[1].pe /\ BitAnd(trace[1].ps, PS_NT) # 0
    /\ model = MODEL_80286 /\ PoppedInOrder /\ trace[2].ok

(***************************************************************************)
(* LTR.                                                                    *)
(***************************************************************************)
\* LTR loaded the task register
TRLoaded == Did("LTR") /\ \E i \in Calls("segTSS.load") : trace[i].ok

\* the access word of the descriptor of sel before LTR
AccBefore(sel) == OpsDesc(sel).acc

\* the busy bit was set in the descriptor in memory, and the access word of
\* the task register is the word written
MarkedBusy ==
    /\ aluOut.written = {<< OpsDescAddr(aluOut.dst) + ACC_OFFSET,
                            BitOr(AccBefore(aluOut.dst), ACC_TSS_BUSY) >>}
    /\ aluOut.segTSS.acc = BitOr(AccBefore(aluOut.dst), ACC_TSS_BUSY)
    /\ BitAnd(AccBefore(aluOut.dst), ACC_TYPE_MASK) = ACC_TYPE_TSS286
       => BitAnd(aluOut.segTSS.acc, ACC_TYPE_MASK) = ACC_TYPE_TSS286_BUSY
    /\ BitAnd(AccBefore(aluOut.dst), ACC_TYPE_MASK) = ACC_TYPE_TSS386
       => BitAnd(aluOut.segTSS.acc, ACC_TYPE_MASK) = ACC_TYPE_TSS386_BUSY

\* the type of the task register is a busy TSS type
BusyType ==
    aluOut.segTSS.type \in {ACC_TSS_BUSY, ACC_TYPE_TSS286_BUSY, ACC_TYPE_TSS386_BUSY}

\* C25 as stated: after a successful LTR the TSS descriptor in memory has
\* its busy bit set (access word OR 0x0200), the access word of the TR
\* shadow equals the word written back, and the type of the TR shadow is the
\* busy TSS type; when the TR load fails, no descriptor is written.
C25_Original ==
    Did("LTR")
    => /\ TRLoaded => MarkedBusy /\ BusyType
       /\ ~TRLoaded => aluOut.written = {}

\* what holds of LTR: the descriptor write and the access word
C25_DescriptorBusy ==
    Did("LTR")
    => /\ TRLoaded => MarkedBusy
       /\ ~TRLoaded => aluOut.written = {} /\ aluOut.segTSS = NoTSS

\* the type that a successful LTR leaves in the task register is undefined
C25_TypeUndefined == TRLoaded => aluOut.segTSS.type = Undefined

(***************************************************************************)
(* The command-line loader (bin/pcjs): loadMachine evaluates a machine     *)
(* description and constructs an object for every parameter object of      *)
(* every component the description names.                                  *)
(***************************************************************************)

\* aComponents: the component names that loadComponents has collected
Components == <<"chipset", "cpu", "debugger">>

\* the most elements an array of the machine description has
MaxParms == 2

\* the autoStart property of a parameter object in the description file
AutoStarts == {"true", "false", "undefined"}

\* a parameter object
Parms(name, k, autoStart) == [id |-> <<name, k>>, autoStart |-> autoStart]

\* machine[name]: undefined, one parameter object (which has no length and
\* is kept as the one element of value), or an array of them
NoEntry == [defined |-> FALSE, length |-> Undefined, value |-> << >>]
Single(p) == [defined |-> TRUE, length |-> Undefined, value |-> <<p>>]
Array(ps) == [defined |-> TRUE, length |-> Len(ps), value |-> ps]

\* the "cpu" entries a description file can hold
CpuEntries ==
    {NoEntry}
    \cup {Single(Parms("cpu", 1, a)) : a \in AutoStarts}
    \cup UNION {{Array([k \in 1..n |-> Parms("cpu", k, a[k])]) : a \in [1..n -> AutoStarts]}
                : n \in 0..MaxParms}

\* the entries it can hold for another component
OtherEntries(name) ==
    {NoEntry, Single(Parms(name, 1, "undefined")), Single(Parms(name, 1, "true"))}

\* the machine descriptions
Machines ==
    {[chipset |-> c, cpu |-> p, debugger |-> d] :
        c \in OtherEntries("chipset"), p \in CpuEntries, d \in OtherEntries("debugger")}

\* the objects left from the machine that was loaded before
StaleObjects ==
    {[chipset |-> << >>, cpu |-> c, debugger |-> << >>] :
        c \in {<< >>, <<[id |-> <<"cpu", 0>>, type |-> "CPU",
                        parms |-> Parms("cpu", 0, "false")]>>}}

\* var aParms = parms.length !== undefined? parms : [parms];
aParms(parms) == IF parms.length # Undefined THEN parms.value ELSE <<parms.value[1]>>

\* loadMachine without the assignment of autoStart
keepAutoStart(name, parms) == parms

\* if (aComponents[i].name == "cpu") aParms[j]['autoStart'] = false;
forceAutoStart(name, parms) ==
    IF name = "cpu" THEN [parms EXCEPT !.autoStart = "false"] ELSE parms

\* the entry parms after its element j has become p (aParms[j] is the object
\* of the machine description itself)
WithElement(parms, j, p) == [parms EXCEPT !.value[j] = p]

\* the type of the object that the constructor of a component makes
TypeOf(name) ==
    CASE name = "cpu" -> "CPU"
      [] name = "debugger" -> "Debugger"
      [] OTHER -> "ChipSet"

\* loadMachine has returned
Loaded == iLoad[1] > Len(Components)

\* a stopped CPU in its reset state, and a description file for the loader
InitLoad ==
    /\ model = MODEL_8086
    /\ opFlags = 0 /\ nFault = -1
    /\ regEAX = 0 /\ regEDX = 0 /\ regMD16 = 0 /\ regMD32 = 0 /\ dataSize = 2
    /\ fRunning = FALSE /\ fComplete = TRUE /\ messages = {}
    /\ nPush = 0 /\ trace = << >> /\ prev = << >> /\ nSteps = 0
    /\ InitFlags(PS_BIT1 + PS_IF)
    /\ InitRealRegs /\ InitStack(<< >>)
    /\ sMachine \in Machines /\ machine = << >>
    /\ objects \in StaleObjects
    /\ dbg = {} /\ Component \in {"null", "component"}
    /\ iLoad = <<0, 0>> /\ calls = << >>

\* loadMachine(sFile) up to its loop: the objects of the previous machine are
\* dropped and the file is evaluated; thrown: readFileSync or eval throws
LoadMachine(thrown) ==
    /\ iLoad = <<0, 0>>
    /\ Component' = "null" /\ dbg' = {}
    /\ objects' = [chipset |-> << >>, cpu |-> << >>, debugger |-> << >>]
    /\ IF thrown
       THEN machine' = << >> /\ iLoad' = <<Len(Components) + 1, 1>>
       ELSE machine' = sMachine /\ iLoad' = <<1, 1>>
    /\ UNCHANGED << sMachine, calls >>

\* one round of the outer loop that constructs nothing: the description has
\* no entry for the component, or the inner loop has reached the end of aParms
NextComponent ==
    /\ iLoad[1] \in 1..Len(Components)
    /\ \/ ~machine[Components[iLoad[1]]].defined
       \/ /\ machine[Components[iLoad[1]]].defined
          /\ iLoad[2] > Len(aParms(machine[Components[iLoad[1]]]))
    /\ iLoad' = <<iLoad[1] + 1, 1>>
    /\ UNCHANGED << sMachine, machine, objects, dbg, Component, calls >>

\* one round of the inner loop: the constructor is called with aParms[j];
\* thrown: the constructor throws
CreateObject(thrown) ==
    LET name == Components[iLoad[1]]
        j == iLoad[2]
        parms == machine[name]
        p == forceAutoStart(name, aParms(parms)[j])
        obj == [id |-> p.id, type |-> TypeOf(name), parms |-> p]
    IN  /\ iLoad[1] \in 1..Len(Components)
        /\ parms.defined
        /\ j <= Len(aParms(parms))
        /\ machine' = [machine EXCEPT ![name] = WithElement(parms, j, p)]
        /\ calls' = Append(calls, [name |-> name, parms |-> p, thrown |-> thrown])
        /\ IF thrown
           THEN UNCHANGED << objects, dbg >>
           ELSE /\ objects' = [objects EXCEPT ![name] = Append(@, obj)]
                /\ dbg' = IF obj.type = "Debugger" THEN {obj} ELSE dbg
        /\ iLoad' = <<iLoad[1], j + 1>>
        /\ UNCHANGED << sMachine, Component >>

\* the loader leaves the CPU as it is
Loading(A) ==
    /\ A
    /\ UNCHANGED << model, regCR0, regPS, regSP, regLIP, opLIP, opFlags, nFault,
                    regEAX, regEDX, regMD16, regMD32, dataSize,
                    segCS, segSS, segDS, segES, segFS, segGS, addrIDTLimit, mem,
                    fComplete, fRunning, messages, nPush, trace, prev, nSteps, aluVars >>

NextLoad ==
    \/ \E thrown \in BOOLEAN : Loading(LoadMachine(thrown))
    \/ Loading(NextComponent)
    \/ \E thrown \in BOOLEAN : Loading(CreateObject(thrown))

SpecLoad == InitLoad /\ [][NextLoad]_vars

\* the constructor of the component name was called with autoStart as a
ConstructedWith(name, a) ==
    \E k \in 1..Len(calls) : calls[k].name = name /\ calls[k].parms.autoStart = a

\* the parameter objects of "cpu" that the loader has passed to the constructor
CpuParmsDone ==
    IF iLoad[1] < 2 \/ DOMAIN machine = {} THEN << >>
    ELSE IF ~machine.cpu.defined THEN << >>
    ELSE IF iLoad[1] > 2 THEN aParms(machine.cpu)
    ELSE SubSeq(aParms(machine.cpu), 1, iLoad[2] - 1)

\* C26: loadMachine forces autoStart to false on every parameter object of the
\* "cpu" entry of the machine description, a single object or each element of
\* an array, before the CPU is constructed, whatever the file held: every call
\* of the CPU constructor receives autoStart false, every CPU object was made
\* from such parameters, and one call is made for each parameter object
C26_AutoStartForced ==
    /\ \A k \in 1..Len(calls) :
           calls[k].name = "cpu" => calls[k].parms.autoStart = "false"
    /\ \A k \in 1..Len(objects.cpu) : objects.cpu[k].parms.autoStart = "false"
    /\ \A k \in 1..Len(CpuParmsDone) :
           /\ CpuParmsDone[k].autoStart = "false"
           /\ \E c \in 1..Len(calls) : calls[c].parms = CpuParmsDone[k]

\* an array of two CPUs whose file held autoStart true and no autoStart has
\* been loaded, and both CPUs were constructed
C26_Witness ==
    /\ Loaded
    /\ sMachine.cpu.length = 2
    /\ sMachine.cpu.value[1].autoStart = "true"
    /\ sMachine.cpu.value[2].autoStart = "undefined"
    /\ Len(objects.cpu) = 2

\* a single CPU object whose file held autoStart true has been loaded
C26_SingleObject ==
    /\ Loaded
    /\ sMachine.cpu.defined /\ sMachine.cpu.length = Undefined
    /\ sMachine.cpu.value[1].autoStart = "true"
    /\ Len(objects.cpu) = 1

\* the parameters of the other components are passed as the file holds them
C26_OthersKept ==
    \A k \in 1..Len(calls) :
        calls[k].name # "cpu" =>
            /\ sMachine[calls[k].name].value[1] = calls[k].parms
            /\ machine[calls[k].name] = sMachine[calls[k].name]

(***************************************************************************)
(* Shifts and rotates by a count: the dispatcher calls the count's getter  *)
(* (fnGRPCountCL for CL, fnGRPCountImm for an immediate byte) and hands    *)
(* what it returns to the helper as src.                                   *)
(***************************************************************************)

\* fnGRPCountCL(): the count is regECX under nShiftCountMask
fnGRPCountCL(f, regECX) == BitAnd(regECX, f.nShiftCountMask)

\* fnGRPCountImm(): the count is the byte that getIPByte() fetches
fnGRPCountImm(f, ib) == ib

\* the shift and rotate helpers of bytes and of words
Grp2b == {"ROLb", "RORb", "RCLb", "RCRb", "SHLb", "SHRb", "SARb"}
Grp2w == {"ROLw", "RORw", "RCLw", "RCRw", "SHLw", "SHRw", "SARw"}

\* the helper that the dispatcher calls for the instruction op
aOpGrp2(op, f, dst, src) ==
    CASE op = "ROLb" -> fnROLb(f, dst, src)
      [] op = "RORb" -> fnRORb(f, dst, src)
      [] op = "RCLb" -> fnRCLb(f, dst, src)
      [] op = "RCRb" -> fnRCRb(f, dst, src)
      [] op = "SHLb" -> fnSHLb(f, dst, src)
      [] op = "SHRb" -> fnSHRb(f, dst, src)
      [] op = "SARb" -> fnSARb(f, dst, src)
      [] op = "ROLw" -> fnROLw(f, dst, src)
      [] op = "RORw" -> fnRORw(f, dst, src)
      [] op = "RCLw" -> fnRCLw(f, dst, src)
      [] op = "RCRw" -> fnRCRw(f, dst, src)
      [] op = "SHLw" -> fnSHLw(f, dst, src)
      [] op = "SHRw" -> fnSHRw(f, dst, src)
      [] op = "SARw" -> fnSARw(f, dst, src)

\* op AL/AX, CL (fromCL; aluIn.src is CX) or op AL/AX, imm8 (aluIn.src is the
\* immediate byte) on a CPU whose nShiftCountMask is m
GRP2(op, fromCL, m) ==
    LET dst == IF op \in Grp2b THEN AL ELSE regEAX
        count == IF fromCL THEN fnGRPCountCL(ALU(65535, m), aluIn.src)
                 ELSE fnGRPCountImm(ALU(65535, m), aluIn.src)
        \* the state after the helper, which gave r
        done(r) ==
            /\ aluOut = NoOp
            /\ regPS' = r.s.regPS /\ regEAX' = r.s.regEAX /\ regEDX' = r.s.regEDX
            /\ regMD16' = r.s.regMD16 /\ regMD32' = r.s.regMD32 /\ opFlags' = r.s.opFlags
            /\ resultDst' = r.s.resultDst /\ resultSrc' = r.s.resultSrc
            /\ resultArith' = r.s.resultArith /\ resultLogic' = r.s.resultLogic
            /\ resultType' = r.s.resultType
            /\ aluOut' = [op |-> op, dst |-> dst, src |-> aluIn.src, ret |-> r.ret,
                          flags |-> getFlags(Flags), type |-> resultType,
                          dataMask |-> r.s.dataMask, nShiftCountMask |-> m,
                          fromCL |-> fromCL, count |-> count]
            /\ UNCHANGED << model, regCR0, regSP, regLIP, opLIP, nFault, dataSize,
                            segCS, segSS, segDS, segES, segFS, segGS, addrIDTLimit, mem,
                            fComplete, fRunning, messages, nPush, trace, prev, nSteps,
                            aluIn, loadVars >>
    IN  /\ fromCL \/ ByteSrc
        /\ done(aOpGrp2(op, ALU(65535, m), dst, count))

NextCount ==
    \/ \E op \in Grp2b \cup Grp2w, m \in ShiftCountMasks : GRP2(op, TRUE, m)
    \/ \E op \in Grp2b \cup Grp2w, m \in ShiftCountMasks : GRP2(op, FALSE, m)

SpecCount == InitALU /\ [][NextCount]_vars

\* a shift or a rotate by a count was executed
DidGRP2 == aluOut # NoOp

\* the count of the instruction reduced by nShiftCountMask
ReducedCount == BitAnd(aluOut.src, aluOut.nShiftCountMask)

\* the helper has returned the destination and left every flag as it was
NothingShifted == aluOut.ret = aluOut.dst /\ getFlags(Flags) = aluOut.flags

\* C27: the count of SHL, SHR, SAR and the rotates, from CL or from an
\* immediate byte, is first reduced by nShiftCountMask, and a reduced count of
\* 0 leaves the destination and every flag unchanged
C27_Original ==
    DidGRP2 =>
        /\ aluOut.count = ReducedCount
        /\ ReducedCount = 0 => NothingShifted

\* what holds: a count from CL is reduced by nShiftCountMask, and a reduced
\* count of 0 leaves the destination and the flags unchanged
C27_CountCL ==
    DidGRP2 /\ aluOut.fromCL =>
        /\ aluOut.count = ReducedCount
        /\ ReducedCount = 0 => NothingShifted

\* what holds: an immediate count is handed to the helper as it is, and only
\* an immediate byte of 0 leaves the destination and the flags unchanged
C27_CountImm ==
    DidGRP2 /\ ~aluOut.fromCL =>
        /\ aluOut.count = aluOut.src
        /\ aluOut.src = 0 => NothingShifted

\* SHL AL, 128 with AL = 1 and nShiftCountMask = 0x1f: the reduced count is
\* 0, the result is 0 and ZF is set
C27_ImmNotReduced ==
    /\ DidGRP2 /\ aluOut.op = "SHLb" /\ ~aluOut.fromCL
    /\ aluOut.nShiftCountMask = 31 /\ aluOut.src = 128 /\ aluOut.dst = 1
    /\ aluOut.ret = 0 /\ getZF(Flags) /\ BitAnd(aluOut.flags, PS_ZF) = 0

\* SHL AX, CL with CX = 256 and nShiftCountMask = 0xff: nothing is shifted
C27_CLReduced ==
    /\ DidGRP2 /\ aluOut.op = "SHLw" /\ aluOut.fromCL
    /\ aluOut.nShiftCountMask = 255 /\ aluOut.src = 256 /\ aluOut.dst = 1
    /\ aluOut.ret = 1

(***************************************************************************)
(* opFlags around a fault.                                                 *)
(***************************************************************************)
\* OPFLAG.NOREAD | OPFLAG.NOWRITE
NoAccess == OPFLAG_NOREAD + OPFLAG_NOWRITE

\* fnFault was called in the middle of an instruction
DidFault == aluOut.op = "fnFault"

\* fnFault reached its last statement: the Debugger did not block the fault
\* and it was not a triple fault
ReachedEnd ==
    /\ DidFault /\ aluOut.fc
    /\ ~(model >= MODEL_80186 /\ aluOut.src = DF_FAULT)

\* fnFault went on to the dispatch (fDispatch is set on an 80186 or later)
WentToDispatch == ReachedEnd /\ model >= MODEL_80186

\* C28: a fault raised in the middle of an instruction leaves NOREAD and
\* NOWRITE set in opFlags, so that the rest of the instruction makes no memory
\* access, and on every path through fnFault both bits are clear when fnINT is
\* called to dispatch the handler
C28_Original ==
    DidFault =>
        /\ BitAnd(opFlags, NoAccess) = NoAccess
        /\ \A i \in Calls("fnINT") : BitAnd(trace[i].opFlags, NoAccess) = 0

\* what holds: fnINT is called with NOREAD and NOWRITE as the instruction
\* left them, and both are clear when fnFault returns from the dispatch
C28_ClearedAfterDispatch ==
    /\ ReachedEnd => BitAnd(opFlags, NoAccess) = 0
    /\ WentToDispatch =>
           /\ Calls("fnINT") # {}
           /\ \A i \in Calls("fnINT") : trace[i].opFlags = aluOut.dst

\* what holds: a fault that the Debugger blocks leaves opFlags as they were
C28_BlockedKeeps == DidFault /\ ~aluOut.fc => opFlags = aluOut.dst /\ Calls("fnINT") = {}

\* a fault raised with NOREAD and NOWRITE set was dispatched
C28_RaisedWithBits == WentToDispatch /\ aluOut.dst = NoAccess /\ aluOut.src = -1

\* a fault raised with NOREAD and NOWRITE set was blocked by the Debugger
C28_BlockedWithBits == DidFault /\ ~aluOut.fc /\ aluOut.dst = NoAccess

(***************************************************************************)
(* The write-back of a divide instruction.                                 *)
(***************************************************************************)
\* the dispatcher will not write the operand back
NoWriteBack == BitAnd(opFlags, OPFLAG_NOWRITE) # 0

\* from the registers of this state, each divide helper returns the divisor
\* it is given
ReturnsDivisor ==
    /\ \A d \in DivBytes : fnDIVb(Dispatch(CPU, 2, "DIVb", d), d).ret = d
    /\ \A d \in DivWords : fnDIVw(Dispatch(CPU, 2, "DIVw", d), d).ret = d
    /\ \A d \in DivBytes : fnIDIVb(Dispatch(CPU, 2, "IDIVb", d), d).ret = d
    /\ \A d \in DivWords : fnIDIVw(Dispatch(CPU, 2, "IDIVw", d), d).ret = d

\* C29: every execution of fnDIVb, fnDIVw, fnIDIVb and fnIDIVw, those that end
\* in a divide error included, returns the divisor unchanged and leaves
\* OPFLAG.NOWRITE set, so that the divisor is never written back
C29_Original ==
    /\ nSteps = 0 => ReturnsDivisor
    /\ DivCompleted \/ DivFailed => NoWriteBack

\* what holds: the divisor is returned unchanged, and NOWRITE is set by the
\* divides that complete
C29_Completed ==
    /\ nSteps = 0 => ReturnsDivisor
    /\ DivCompleted => NoWriteBack

\* what holds: a divide that ends in a divide error leaves NOWRITE clear
C29_ErrorWritesBack == DivFailed => ~NoWriteBack

\* DIV by a byte of 0 has raised the divide error
C29_DivideByZero == DivFailed /\ trace[1].fn = "DIVb" /\ trace[1].arg = 0

\* IDIV by a word has completed
C29_Divided == DivCompleted /\ trace[1].fn = "IDIVw" /\ NoWriteBack

(***************************************************************************)
(* LAR.                                                                    *)
(***************************************************************************)
\* LAR was executed
DidLAR == aluOut.op = "LAR"

\* the descriptor that LAR's selector names is a segment descriptor within
\* the table, with DPL >= CPL and DPL >= RPL
LarAllowed ==
    /\ OpsInGDT(aluOut.src)
    /\ BitAnd(OpsDesc(aluOut.src).acc, ACC_TYPE_SEG) # 0
    /\ DescDPL(OpsDesc(aluOut.src).acc) >= trace[1].cpl
    /\ DescDPL(OpsDesc(aluOut.src).acc) >= aluOut.src % 4

\* CPL and the segment registers are those the instruction started with
SegmentsKept ==
    /\ segCS.cpl = trace[1].cpl /\ segCS.sel = trace[1].cs
    /\ segSS.sel = trace[1].ss
    /\ segDS = trace[1].ds /\ segES = trace[1].es
    /\ segFS = trace[1].fs /\ segGS = trace[1].gs

\* ZF after the instruction
ZeroFlag == BitAnd(regPS, PS_ZF) # 0

\* C30: fnLAR changes neither CPL nor a segment register; when the selector's
\* descriptor loads and its DPL >= CPL and DPL >= RPL, ZF is set and the
\* access-rights bits ACC & 0xFF00 of the descriptor are returned; otherwise
\* ZF is cleared and the destination is returned unchanged
C30_Original ==
    DidLAR =>
        /\ SegmentsKept
        /\ IF LarAllowed
           THEN ZeroFlag /\ aluOut.ret = BitAnd(OpsDesc(aluOut.src).acc, 65280)
           ELSE ~ZeroFlag /\ aluOut.ret = aluOut.dst

\* what holds: as C30, but the value returned with ZF set is 0
C30_ReturnsZero ==
    DidLAR =>
        /\ SegmentsKept
        /\ IF LarAllowed
           THEN ZeroFlag /\ aluOut.ret = 0
           ELSE ~ZeroFlag /\ aluOut.ret = aluOut.dst

\* LAR of the data segment 0x10 (access word 0x9200) at CPL 0 with AX = 0x1234
\* and ZF clear has set ZF and returned 0
C30_DataSegment ==
    /\ DidLAR /\ aluOut.src = 16 /\ aluOut.dst = 4660 /\ trace[1].cpl = 0
    /\ ~aluOut.zf
    /\ ZeroFlag /\ aluOut.ret = 0 /\ aluOut.segVER.acc = 37376

\* LAR of a DPL 0 segment at CPL 3 with ZF set has cleared ZF
C30_Denied ==
    /\ DidLAR /\ aluOut.src = 16 /\ trace[1].cpl = 3 /\ aluOut.dst = 4660
    /\ aluOut.zf
    /\ ~ZeroFlag /\ aluOut.ret = 4660

=============================================================================
